---------------------------- MODULE Spec2Model ----------------------------
(***************************************************************************)
(* Vectoria: an HNSW graph (src/src/lib/hnsw.ts), the indexer facade over  *)
(* the three IndexedDB stores (src/src/index.ts, VectorStore), the         *)
(* re-embedding MigrationManager (src/src/lib/migration.ts) and the        *)
(* service worker's message handler (src/ui/sw.ts).                        *)
(*                                                                         *)
(* Conventions.                                                            *)
(*  - Ids (uuid strings in the code) are the integers 1, 2, ...; NoId (0)  *)
(*    is JavaScript's null / undefined id.                                 *)
(*  - Layer l of the code is index l+1 of a node's neighbors sequence.     *)
(*  - A similarity score is the code's cosine value in fixed point         *)
(*    (ScoreScale units per 1.0, rounded down).                            *)
(*  - Every `await` on a store, on the embedder or on a timer is one       *)
(*    suspension point of a frame; the code between two suspension points  *)
(*    is one atomic step (JavaScript runs a continuation to completion).   *)
(*    A store operation takes effect in the step that resumes its caller;  *)
(*    operations on one store of which one writes are served in the order  *)
(*    of their calls (IndexedDB orders transactions with overlapping       *)
(*    scopes by creation), other operations in any order.                  *)
(*    An await on a promise that is already settled (init() of an          *)
(*    initialised instance) is joined to the code that follows it.         *)
(***************************************************************************)
EXTENDS Integers, Sequences, FiniteSets, TLC

(***************************************************************************)
(* Bounds of the model.                                                    *)
(***************************************************************************)
\* HNSWConfig.M, the out-degree limit (the code's default is 16).
M == 2
\* HNSWConfig.efConstruction, the beam width of an insertion (default 200).
EfConstruction == 2
\* HNSWConfig.efSearch, the beam width of a query (default 200).
EfSearch == 3
\* getRandomLevel stops at this level (16 in the code).
LevelCap == 1
\* Points inserted into one graph under SpecGraph.
MaxNodes == 4
\* The levels getRandomLevel draws for the insertions of the facade stop here.
FacadeLevelCap == 0

NoId == 0

(***************************************************************************)
(* Vector math: HNSWIndex.dist                                             *)
(***************************************************************************)
\* Fixed-point units of a score per 1.0.
ScoreScale == 50
\* 1e-6, the epsilon of the denominator, is one unit in EpsUnits.
EpsUnits == 1000000

\* The vectors the embedders and the callers of addPoint produce. Their
\* squared norms are perfect squares (0 or 25), so Math.sqrt is exact.
Vectors == { <<5, 0>>, <<3, 4>>, <<-4, 3>>, <<0, 0>> }

Dot(a, b) == a[1] * b[1] + a[2] * b[2]

Sqrt(n) == CHOOSE r \in 0..n : r * r = n

\* dot / (sqrt(normA) * sqrt(normB) + 1e-6), in ScoreScale units.
Dist(a, b) ==
  (Dot(a, b) * EpsUnits * ScoreScale)
     \div (Sqrt(Dot(a, a)) * Sqrt(Dot(b, b)) * EpsUnits + 1)

(***************************************************************************)
(* Arrays of {id, score}                                                   *)
(***************************************************************************)
Front(s) == SubSeq(s, 1, Len(s) - 1)

Take(s, n) == SubSeq(s, 1, IF Len(s) < n THEN Len(s) ELSE n)

SeqToSet(s) == { s[i] : i \in 1..Len(s) }

\* The ids of an array of {id, score}.
IdsOf(s) == [i \in 1..Len(s) |-> s[i].id]

\* One step of a stable insertion: e goes behind every entry that scores
\* at least as much.
InsertDesc(sorted, e) ==
  SelectSeq(sorted, LAMBDA x : x.score >= e.score)
     \o <<e>> \o SelectSeq(sorted, LAMBDA x : x.score < e.score)

\* array.sort((a, b) => b.score - a.score): descending and stable.
RECURSIVE SortDesc(_)
SortDesc(s) ==
  IF Len(s) <= 1 THEN s ELSE InsertDesc(SortDesc(Front(s)), s[Len(s)])

\* selectNeighbors: the M best candidates.
SelectNeighbors(candidates, m) == Take(SortDesc(candidates), m)

(***************************************************************************)
(* HNSWIndex                                                               *)
(***************************************************************************)
EmptyNodes == [x \in {} |-> x]

\* new HNSWIndex() with the default configuration.
NewIndex ==
  [ nodes          |-> EmptyNodes,
    entryPointId   |-> NoId,
    maxLevel       |-> 0,
    M              |-> M,
    efConstruction |-> EfConstruction,
    efSearch       |-> EfSearch ]

\* The levels getRandomLevel can return.
Levels == 0..LevelCap

HasLayer(g, id, l) == id \in DOMAIN g.nodes /\ l + 1 <= Len(g.nodes[id].neighbors)

\* { id, score: this.dist(query, node.vector) }
Scored(g, q, id) == [id |-> id, score |-> Dist(q, g.nodes[id].vector)]

\* W.sort(...); if (W.length > ef) W.pop()
SortAndPop(W, ef) ==
  IF Len(W) > ef THEN Front(SortDesc(W)) ELSE SortDesc(W)

\* The for-loop over the neighbours of candidate c in searchLayer. fScore is
\* the score of the worst result, taken at the top of the iteration of the
\* while-loop; the for-loop does not refresh it. err: the code dereferences
\* a missing node.
RECURSIVE ScanNeighbors(_, _, _, _, _, _, _, _)
RECURSIVE ScanNeighbor(_, _, _, _, _, _, _, _, _)
ScanNeighbors(g, q, ef, fScore, nbrs, C, W, v) ==
  IF nbrs = <<>> THEN [err |-> FALSE, C |-> C, W |-> W, v |-> v]
  ELSE IF Head(nbrs) \in v THEN ScanNeighbors(g, q, ef, fScore, Tail(nbrs), C, W, v)
  ELSE IF Head(nbrs) \notin DOMAIN g.nodes
    THEN [err |-> TRUE, C |-> C, W |-> W, v |-> v \cup {Head(nbrs)}]
  ELSE ScanNeighbor(g, q, ef, fScore, nbrs, C, W, v, Scored(g, q, Head(nbrs)))

\* ScanNeighbor without v.add(neighborId).
ScanNeighbor_noVisit(g, q, ef, fScore, nbrs, C, W, v, e) ==
  IF Len(W) < ef \/ e.score > fScore
    THEN ScanNeighbors(g, q, ef, fScore, Tail(nbrs), Append(C, e),
                       SortAndPop(Append(W, e), ef), v)
    ELSE ScanNeighbors(g, q, ef, fScore, Tail(nbrs), C, W, v)

\* The body of the for-loop for an unvisited neighbour e = {id, score}.
ScanNeighbor(g, q, ef, fScore, nbrs, C, W, v, e) ==
  IF Len(W) < ef \/ e.score > fScore
    THEN ScanNeighbors(g, q, ef, fScore, Tail(nbrs), Append(C, e),
                       SortAndPop(Append(W, e), ef), v \cup {e.id})
    ELSE ScanNeighbors(g, q, ef, fScore, Tail(nbrs), C, W, v \cup {e.id})

\* The while-loop of searchLayer: C.sort, c = C.shift(), W.sort, f = the
\* last of W, then the for-loop over the neighbours of c.
RECURSIVE SearchLoop(_, _, _, _, _, _, _)
RECURSIVE SearchStep(_, _, _, _, _, _, _)
RECURSIVE SearchScanned(_, _, _, _, _)
SearchLoop(g, q, ef, level, C, W, v) ==
  IF C = <<>> THEN [err |-> FALSE, W |-> W]
  ELSE SearchStep(g, q, ef, level, SortDesc(C), SortDesc(W), v)

\* One iteration of the while-loop, C and W sorted.
SearchStep(g, q, ef, level, Cs, Ws, v) ==
  IF Head(Cs).score < Ws[Len(Ws)].score /\ Len(Ws) >= ef
    THEN [err |-> FALSE, W |-> Ws]
  ELSE IF ~HasLayer(g, Head(Cs).id, level) THEN [err |-> TRUE, W |-> Ws]
  ELSE SearchScanned(g, q, ef, level,
                     ScanNeighbors(g, q, ef, Ws[Len(Ws)].score,
                                   g.nodes[Head(Cs).id].neighbors[level + 1],
                                   Tail(Cs), Ws, v))

\* The while-loop goes on with what the for-loop left in C, W and visited.
SearchScanned(g, q, ef, level, r) ==
  IF r.err THEN [err |-> TRUE, W |-> r.W]
  ELSE SearchLoop(g, q, ef, level, r.C, r.W, r.v)

\* searchLayer(query, entry, ef, level): the results, best first.
SearchLayer(g, q, entryId, ef, level) ==
  SearchLoop(g, q, ef, level, <<Scored(g, q, entryId)>>, <<Scored(g, q, entryId)>>,
             {entryId})

\* searchLayer with a record of the ids pushed onto C, in the order of the
\* pushes (the entry first): the while-loop of SearchLoop with the ids that
\* each for-loop appended to C added to `admitted`.
RECURSIVE AdmittedLoop(_, _, _, _, _, _, _, _)
RECURSIVE AdmittedStep(_, _, _, _, _, _, _, _)
RECURSIVE AdmittedScanned(_, _, _, _, _, _, _)
AdmittedLoop(g, q, ef, level, C, W, v, admitted) ==
  IF C = <<>> THEN [err |-> FALSE, W |-> W, admitted |-> admitted]
  ELSE AdmittedStep(g, q, ef, level, SortDesc(C), SortDesc(W), v, admitted)

\* One iteration of the while-loop, C and W sorted.
AdmittedStep(g, q, ef, level, Cs, Ws, v, admitted) ==
  IF Head(Cs).score < Ws[Len(Ws)].score /\ Len(Ws) >= ef
    THEN [err |-> FALSE, W |-> Ws, admitted |-> admitted]
  ELSE IF ~HasLayer(g, Head(Cs).id, level)
    THEN [err |-> TRUE, W |-> Ws, admitted |-> admitted]
  ELSE AdmittedScanned(g, q, ef, level, Len(Cs) - 1, admitted,
                       ScanNeighbors(g, q, ef, Ws[Len(Ws)].score,
                                     g.nodes[Head(Cs).id].neighbors[level + 1],
                                     Tail(Cs), Ws, v))

\* The next iteration: r.C is what was left of C (kept entries) followed by
\* the entries the for-loop pushed.
AdmittedScanned(g, q, ef, level, kept, admitted, r) ==
  IF r.err THEN [err |-> TRUE, W |-> r.W, admitted |-> admitted]
  ELSE AdmittedLoop(g, q, ef, level, r.C, r.W, r.v,
                    admitted \o IdsOf(SubSeq(r.C, kept + 1, Len(r.C))))

SearchLayerAdmitted(g, q, entryId, ef, level) ==
  AdmittedLoop(g, q, ef, level, <<Scored(g, q, entryId)>>, <<Scored(g, q, entryId)>>,
               {entryId}, <<entryId>>)

\* One scan of the greedy descent: the first neighbour of the current node
\* that beats every earlier one and the current score, or NoId.
RECURSIVE BestNeighbor(_, _, _, _, _)
BestNeighbor(g, q, nbrs, bestId, bestDist) ==
  IF nbrs = <<>> THEN [err |-> FALSE, id |-> bestId, dist |-> bestDist]
  ELSE IF Head(nbrs) \notin DOMAIN g.nodes
    THEN [err |-> TRUE, id |-> bestId, dist |-> bestDist]
  ELSE IF Dist(q, g.nodes[Head(nbrs)].vector) > bestDist
    THEN BestNeighbor(g, q, Tail(nbrs), Head(nbrs), Dist(q, g.nodes[Head(nbrs)].vector))
    ELSE BestNeighbor(g, q, Tail(nbrs), bestId, bestDist)

\* while (changed) on one layer: climb while some neighbour is closer.
RECURSIVE GreedyLayer(_, _, _, _, _)
RECURSIVE GreedyMove(_, _, _, _, _, _)
GreedyLayer(g, q, cur, curDist, l) ==
  IF ~HasLayer(g, cur, l) THEN [err |-> TRUE, id |-> cur, dist |-> curDist]
  ELSE GreedyMove(g, q, cur, curDist, l,
                  BestNeighbor(g, q, g.nodes[cur].neighbors[l + 1], NoId, curDist))

\* The end of one scan: b is the closer neighbour found, if any.
GreedyMove(g, q, cur, curDist, l, b) ==
  IF b.err THEN [err |-> TRUE, id |-> cur, dist |-> curDist]
  ELSE IF b.id = NoId THEN [err |-> FALSE, id |-> cur, dist |-> curDist]
  ELSE GreedyLayer(g, q, b.id, b.dist, l)

\* for (l = from; l > downTo; l--): the descent through the upper layers.
RECURSIVE GreedyDescent(_, _, _, _, _, _)
RECURSIVE GreedyDown(_, _, _, _, _)
GreedyDescent(g, q, cur, curDist, l, downTo) ==
  IF l <= downTo THEN [err |-> FALSE, id |-> cur, dist |-> curDist]
  ELSE GreedyDown(g, q, l, downTo, GreedyLayer(g, q, cur, curDist, l))

\* l-- with the node r the climb on layer l ended at.
GreedyDown(g, q, l, downTo, r) ==
  IF r.err THEN r ELSE GreedyDescent(g, q, r.id, r.dist, l - 1, downTo)

\* ShrinkConnections with the slice to M entries left out.
ShrinkConnections_keepsAll(g, nid, l) == g.nodes[nid].neighbors[l + 1]

\* The shrink of a neighbour's list that has grown past M: its M entries
\* closest to the neighbour itself.
ShrinkConnections(g, nid, l) ==
  IdsOf(SelectNeighbors(
          [i \in 1..Len(g.nodes[nid].neighbors[l + 1]) |->
             [id    |-> g.nodes[nid].neighbors[l + 1][i],
              score |-> Dist(g.nodes[nid].vector,
                             g.nodes[g.nodes[nid].neighbors[l + 1][i]].vector)]],
          g.M))

\* PushAndShrink without neighbor.neighbors[l].push(id).
PushAndShrink_noPush(g, id, nid, l, pushed) == g

\* neighbor.neighbors[l].push(id), then the shrink when the list exceeds M.
PushAndShrink(g, id, nid, l, pushed) ==
  IF Len(pushed.nodes[nid].neighbors[l + 1]) > g.M
    THEN [pushed EXCEPT !.nodes[nid].neighbors[l + 1] = ShrinkConnections(pushed, nid, l)]
    ELSE pushed

\* ConnectBack without touchedNodes.add(neighbor.id).
RECURSIVE ConnectBack_forgetsTouched(_, _, _, _, _)
ConnectBack_forgetsTouched(g, id, l, sel, touched) ==
  IF sel = <<>> THEN [err |-> FALSE, g |-> g, touched |-> touched]
  ELSE IF ~HasLayer(g, Head(sel).id, l) THEN [err |-> TRUE, g |-> g, touched |-> touched]
  ELSE ConnectBack_forgetsTouched(
         PushAndShrink(g, id, Head(sel).id, l,
                       [g EXCEPT !.nodes[Head(sel).id].neighbors[l + 1] = Append(@, id)]),
         id, l, Tail(sel), touched)

\* "Connect neighbors to newNode": push id onto each selected neighbour's
\* list of layer l and shrink the list when it exceeds M.
RECURSIVE ConnectBack(_, _, _, _, _)
ConnectBack(g, id, l, sel, touched) ==
  IF sel = <<>> THEN [err |-> FALSE, g |-> g, touched |-> touched]
  ELSE IF ~HasLayer(g, Head(sel).id, l) THEN [err |-> TRUE, g |-> g, touched |-> touched]
  ELSE ConnectBack(PushAndShrink(g, id, Head(sel).id, l,
                                 [g EXCEPT !.nodes[Head(sel).id].neighbors[l + 1] =
                                    Append(@, id)]),
                   id, l, Tail(sel), touched \cup {Head(sel).id})

\* for (l = min(level, maxLevel); l >= 0; l--): search the layer, link the
\* new node, continue from the best result.
RECURSIVE ConnectLayers(_, _, _, _, _, _)
RECURSIVE ConnectLayer(_, _, _, _, _, _, _)
RECURSIVE ConnectSelected(_, _, _, _, _, _, _, _)
RECURSIVE ConnectNext(_, _, _, _, _)
ConnectLayers(g, id, q, cur, l, touched) ==
  IF l < 0 THEN [err |-> FALSE, g |-> g, touched |-> touched]
  ELSE ConnectLayer(g, id, q, cur, l, touched,
                    SearchLayer(g, q, cur, g.efConstruction, l))

\* One iteration: s is what searchLayer returned (W).
ConnectLayer(g, id, q, cur, l, touched, s) ==
  IF s.err THEN [err |-> TRUE, g |-> g, touched |-> touched]
  ELSE ConnectSelected(g, id, q, cur, l, touched, s.W, SelectNeighbors(s.W, g.M))

\* newNode.neighbors[l] = the selected ids; the links back; currObj = W[0].
ConnectSelected(g, id, q, cur, l, touched, W, sel) ==
  ConnectNext(id, q, IF Len(W) > 0 THEN W[1].id ELSE cur, l,
              ConnectBack([g EXCEPT !.nodes[id].neighbors[l + 1] = IdsOf(sel)],
                          id, l, sel, touched))

\* l-- with the graph c.g the iteration left.
ConnectNext(id, q, cur, l, c) ==
  IF c.err THEN c ELSE ConnectLayers(c.g, id, q, cur, l - 1, c.touched)

Min(a, b) == IF a < b THEN a ELSE b

\* AddPointLevels with the assignment to entryPointId left out.
AddPointLevels_keepsEntry(g, id, level) ==
  IF level > g.maxLevel THEN [g EXCEPT !.maxLevel = level] ELSE g

\* if (level > this.maxLevel) { maxLevel = level; entryPointId = id }
AddPointLevels(g, id, level) ==
  IF level > g.maxLevel
    THEN [g EXCEPT !.maxLevel = level, !.entryPointId = id]
    ELSE g

\* SetNode with one neighbour list whatever the level.
SetNode_oneList(g, id, vector, level) ==
  [g EXCEPT !.nodes =
     [x \in DOMAIN g.nodes \cup {id} |->
        IF x = id THEN [id |-> id, vector |-> vector, level |-> level,
                        neighbors |-> <<<<>>>>]
        ELSE g.nodes[x]]]

\* this.nodes.set(id, newNode)
SetNode(g, id, vector, level) ==
  [g EXCEPT !.nodes =
     [x \in DOMAIN g.nodes \cup {id} |->
        IF x = id THEN [id |-> id, vector |-> vector, level |-> level,
                        neighbors |-> [l \in 1..(level + 1) |-> <<>>]]
        ELSE g.nodes[x]]]

\* The end of addPoint: c is what the loop over the layers left.
AddPointEnd(id, level, c) ==
  IF c.err THEN [err |-> "TypeError", g |-> c.g, touched |-> c.touched]
  ELSE [err |-> "", touched |-> c.touched, g |-> AddPointLevels(c.g, id, level)]

\* The part of addPoint that follows the greedy descent, which ended at d.
AddPointConnect(g1, id, vector, level, d) ==
  IF d.err THEN [err |-> "TypeError", g |-> g1, touched |-> {id}]
  ELSE AddPointEnd(id, level,
                   ConnectLayers(g1, id, vector, d.id, Min(level, g1.maxLevel), {id}))

\* addPoint once the new node is in the map g1.nodes.
AddPointInto(g1, id, vector, level) ==
  IF g1.entryPointId = NoId
    THEN [err |-> "", touched |-> {id},
          g |-> [g1 EXCEPT !.entryPointId = id, !.maxLevel = level]]
  ELSE IF g1.entryPointId \notin DOMAIN g1.nodes
    THEN [err |-> "TypeError", g |-> g1, touched |-> {id}]
  ELSE AddPointConnect(g1, id, vector, level,
                       GreedyDescent(g1, vector, g1.entryPointId,
                                     Dist(vector, g1.nodes[g1.entryPointId].vector),
                                     g1.maxLevel, level))

\* AddPoint with nodes.set moved in front of the test for a known id.
AddPoint_setsFirst(g, id, vector, level) ==
  IF id \in DOMAIN g.nodes
    THEN [err |-> "exists", g |-> SetNode(g, id, vector, level), touched |-> {}]
    ELSE AddPointInto(SetNode(g, id, vector, level), id, vector, level)

\* addPoint(id, vector) with the level getRandomLevel draws.
\* err: "" (returned), "exists" (the duplicate-id Error) or "TypeError".
AddPoint(g, id, vector, level) ==
  IF id \in DOMAIN g.nodes THEN [err |-> "exists", g |-> g, touched |-> {}]
  ELSE AddPointInto(SetNode(g, id, vector, level), id, vector, level)

\* HnswSearchEnd that returns W whole, without slice(0, k).
HnswSearchEnd_noSlice(k, s) == [err |-> s.err, res |-> s.W]

\* The layer-0 search of search(): s is what searchLayer returned.
HnswSearchEnd(k, s) == [err |-> s.err, res |-> Take(s.W, k)]

\* search() after the greedy descent, which ended at d.
HnswSearchFrom(g, query, k, d) ==
  IF d.err THEN [err |-> TRUE, res |-> <<>>]
  ELSE HnswSearchEnd(k, SearchLayer(g, query, d.id, g.efSearch, 0))

\* search(query, k): the k best of layer 0, best first.
HnswSearch(g, query, k) ==
  IF g.entryPointId = NoId THEN [err |-> FALSE, res |-> <<>>]
  ELSE IF g.entryPointId \notin DOMAIN g.nodes THEN [err |-> TRUE, res |-> <<>>]
  ELSE HnswSearchFrom(g, query, k,
                      GreedyDescent(g, query, g.entryPointId,
                                    Dist(query, g.nodes[g.entryPointId].vector),
                                    g.maxLevel, 0))

(***************************************************************************)
(* Bounds of the facade, the migration and the dispatch                    *)
(***************************************************************************)
\* Requests (messages, or direct calls of a library user) in one behaviour.
MaxCalls == 4
\* Calls and migration runs in flight at the same time.
MaxActive == 2
\* Vectoria objects created in one behaviour.
MaxInst == 2
\* MigrationManager objects created in one behaviour.
MaxMgr == 2
\* Documents created in one behaviour.
MaxDocs == 2
\* The batchSize of MigrationManager.start (50 by default).
BatchSize == 2
\* The id of a document that comes from outside.
ImportedId == 9
\* The topK the service worker passes to search.
TopK == 5

(***************************************************************************)
(* Embedders, documents, stores                                            *)
(***************************************************************************)
Texts == {"a", "b"}

\* The embedder families CONFIGURE and MIGRATE_START select.
Embedders == {"local", "openai"}

\* embed(text): the embedders are deterministic functions of the text.
Embed(kind, text) ==
  IF kind = "local" THEN (IF text = "a" THEN <<5, 0>> ELSE <<3, 4>>)
  ELSE (IF text = "a" THEN <<-4, 3>> ELSE <<0, 5>>)

\* A document that carries no embedding (embedding: undefined).
NoEmbedding == <<>>

\* new Float32Array(vector). The components of the model's vectors are small
\* integers, which single precision holds exactly.
ToFloat32(vector) == [i \in 1..Len(vector) |-> vector[i]]

\* Array.from(node.vector)
FromFloat32(vector) == [i \in 1..Len(vector) |-> vector[i]]

\* cosineSimilarity of lib/vector: dot / (|a|.|b| + 1e-6).
CosineSimilarity(a, b) == Dist(a, b)

NoMeta == [some |-> FALSE]

\* const { nodes, ...meta } = this.index.toJSON()
ToMeta(g) ==
  [ some |-> TRUE, M |-> g.M, efConstruction |-> g.efConstruction,
    efSearch |-> g.efSearch, maxLevel |-> g.maxLevel,
    entryPointId |-> g.entryPointId ]

\* SerializeNode that writes the node with its neighbour lists empty.
SerializeNode_noLinks(node) ==
  [node EXCEPT !.vector = FromFloat32(node.vector),
               !.neighbors = [l \in 1..Len(@) |-> <<>>]]

\* { ...node, vector: Array.from(node.vector) }
SerializeNode(node) == [node EXCEPT !.vector = FromFloat32(node.vector)]

\* FromJSON without `index.maxLevel = json.maxLevel`: the level the
\* constructor sets stays.
FromJSON_keepsMaxLevel(m, nodes) ==
  [ nodes          |-> [id \in DOMAIN nodes |->
                          [nodes[id] EXCEPT !.vector = ToFloat32(nodes[id].vector)]],
    entryPointId   |-> m.entryPointId,
    maxLevel       |-> 0,
    M              |-> IF m.M = 0 THEN M ELSE m.M,
    efConstruction |-> IF m.efConstruction = 0 THEN EfConstruction ELSE m.efConstruction,
    efSearch       |-> IF m.efSearch = 0 THEN EfSearch ELSE m.efSearch ]

\* HNSWIndex.fromJSON({ ...meta, nodes }): `config.X || default` in the
\* constructor, then maxLevel, entryPointId and the nodes as stored.
FromJSON(m, nodes) ==
  [ nodes          |-> [id \in DOMAIN nodes |->
                          [nodes[id] EXCEPT !.vector = ToFloat32(nodes[id].vector)]],
    entryPointId   |-> m.entryPointId,
    maxLevel       |-> m.maxLevel,
    M              |-> IF m.M = 0 THEN M ELSE m.M,
    efConstruction |-> IF m.efConstruction = 0 THEN EfConstruction ELSE m.efConstruction,
    efSearch       |-> IF m.efSearch = 0 THEN EfSearch ELSE m.efSearch ]

\* The ids of a set, in increasing order: the key order of an object store.
RECURSIVE SortedIds(_)
SortedIds(S) ==
  IF S = {} THEN <<>>
  ELSE LET x == CHOOSE y \in S : \A z \in S : y <= z IN <<x>> \o SortedIds(S \ {x})

\* db.getAll('documents')
GetAll(store) == LET ids == SortedIds(DOMAIN store) IN [i \in 1..Len(ids) |-> store[ids[i]]]

\* store.put of each element: insert or replace by key.
PutAll(store, items) ==
  LET new == { items[i].id : i \in 1..Len(items) } IN
  [id \in DOMAIN store \cup new |->
     IF id \in new
       THEN items[CHOOSE i \in 1..Len(items) :
                    items[i].id = id /\ \A j \in (i + 1)..Len(items) : items[j].id # id]
       ELSE store[id]]

\* HNSWIndex.toJSON(): the parameters and, for each entry of the map, the
\* node with its vector as a plain array. The ids of the model grow with the
\* insertions, so the order of the map is the order of the ids.
ToJSON(g) ==
  LET ids == SortedIds(DOMAIN g.nodes) IN
  [ meta  |-> ToMeta(g),
    nodes |-> [i \in 1..Len(ids) |->
                 [ id        |-> ids[i],
                   vector    |-> FromFloat32(g.nodes[ids[i]].vector),
                   level     |-> g.nodes[ids[i]].level,
                   neighbors |-> g.nodes[ids[i]].neighbors ]] ]

\* HNSWIndex.fromJSON(json) of a whole toJSON value: index.nodes.set for each
\* element of json.nodes.
Reload(json) == FromJSON(json.meta, PutAll(EmptyNodes, json.nodes))

(***************************************************************************)
(* Frames: the asynchronous calls in flight                                *)
(***************************************************************************)
NoReply == [type |-> "none"]
Result(v) == [type |-> "result", val |-> v]
Error(msg) == [type |-> "error", msg |-> msg]

\* A frame is one call of an async function of the facade (with the message
\* handler or the library caller awaiting it) or one run of
\* MigrationManager.start; pc names the await it is suspended at.
BlankFrame ==
  [ origin  |-> "",      \* "sw": a message handler, "lib": a direct call, "run"
    kind    |-> "",      \* the message type or the method called
    op      |-> "",      \* the facade method the frame is inside
    pc      |-> "done",
    inst    |-> 0,       \* the Vectoria object the call is on
    mgr     |-> 0,       \* the manager of a run
    texts   |-> <<>>,    \* the texts to embed
    newDocs |-> <<>>,    \* docs: the documents being inserted
    touched |-> {},      \* touchedIds / allTouchedIds
    metaL   |-> NoMeta,  \* meta (init, saveIndex)
    nodesL  |-> <<>>,    \* nodesToSave
    brute   |-> FALSE,   \* useBruteForce
    k       |-> 0,       \* topK
    results |-> <<>>,    \* results of search: {id, score}
    allDocs |-> <<>>,    \* allDocs of a run
    i       |-> 0,       \* the loop index of a run
    reply   |-> NoReply, \* the reply posted / the value the call settled with
    busy    |-> FALSE,   \* history: some run was in progress when it arrived
    mustSee |-> {},      \* history: ids addDocument had returned when it arrived
    missed  |-> {} ]     \* history: ids of mustSee a search ran without

\* Suspension points at which the frame waits for a store operation, with
\* the store and whether the operation writes.
DbStore(pc) ==
  CASE pc \in {"init_meta", "save_meta", "clear_meta"} -> "meta"
    [] pc \in {"init_nodes", "save_nodes", "clear_nodes"} -> "hnsw_nodes"
    [] pc \in {"db_add", "bf_getall", "get_many", "get_all", "clear_docs"} -> "documents"
    [] OTHER -> "none"

DbWrites(pc) ==
  pc \in {"save_meta", "clear_meta", "save_nodes", "clear_nodes", "db_add", "clear_docs"}

Done(f, reply) ==
  [BlankFrame EXCEPT !.origin = f.origin, !.kind = f.kind, !.reply = reply,
                     !.busy = f.busy, !.missed = f.missed]

\* The message of the Error a failed addPoint throws.
ErrMsg(err) == IF err = "exists" THEN "Node already exists" ELSE err

(***************************************************************************)
(* MigrationManager                                                        *)
(***************************************************************************)
\* new MigrationManager(indexer, targetEmbedder)
NewManager(indexer, target) ==
  [ indexer    |-> indexer,
    target     |-> target,
    status     |-> [total |-> 0, processed |-> 0, lastProcessedId |-> NoId,
                    isComplete |-> FALSE, error |-> ""],
    isRunning  |-> FALSE,
    shouldStop |-> FALSE,
    ended      |-> "" ]    \* history: how the last run that ended did so

\* ManagerStart with the test of isRunning moved inside the try block, so
\* that `finally` runs for the rejected call too.
ManagerStart_insideTry(mg) ==
  IF mg.isRunning
    THEN [threw |-> TRUE, mg |-> [mg EXCEPT !.isRunning = FALSE]]
    ELSE [threw |-> FALSE, mg |-> [mg EXCEPT !.isRunning = TRUE, !.shouldStop = FALSE]]

\* The first statements of start(): throw when a run is in progress, else
\* isRunning = true and shouldStop = false.
ManagerStart(mg) ==
  IF mg.isRunning
    THEN [threw |-> TRUE, mg |-> mg]
    ELSE [threw |-> FALSE, mg |-> [mg EXCEPT !.isRunning = TRUE, !.shouldStop = FALSE]]

\* stop()
ManagerStop(mg) == [mg EXCEPT !.shouldStop = TRUE]

\* allDocs.slice(i, i + batchSize)
Batch(f) ==
  SubSeq(f.allDocs, f.i + 1, Min(f.i + BatchSize, Len(f.allDocs)))

(***************************************************************************)
(* Continuations. w is the memory of the worker: [inst, mgrs, nextId, now, *)
(* visible, pristine]; f is the frame that runs. Each operator is the code from one  *)
(* resumption to the next await, and yields the new w and f.               *)
(***************************************************************************)
\* The loop exits: isComplete unless stopped; finally isRunning = false.
RunFinish(w, f) ==
  LET mg  == w.mgrs[f.mgr]
      mg1 == IF ~mg.shouldStop THEN [mg EXCEPT !.status.isComplete = TRUE] ELSE mg
  IN [w |-> [w EXCEPT !.mgrs[f.mgr] =
                [mg1 EXCEPT !.isRunning = FALSE,
                            !.ended = IF mg.shouldStop THEN "stopped" ELSE "complete"]],
      f |-> Done(f, Result("void"))]

\* The head of the for-loop: i < allDocs.length, if (shouldStop) break,
\* then the call of targetEmbedder.embedBatch.
RunLoopTop(w, f) ==
  IF f.i >= Len(f.allDocs) \/ w.mgrs[f.mgr].shouldStop THEN RunFinish(w, f)
  ELSE [w |-> w, f |-> [f EXCEPT !.op = "migrate", !.pc = "embed"]]

\* catch: status.error = e.message; finally isRunning = false; rethrow.
RunCatch(w, f, msg) ==
  [w |-> [w EXCEPT !.mgrs[f.mgr].status.error = msg,
                   !.mgrs[f.mgr].isRunning = FALSE,
                   !.mgrs[f.mgr].ended = "failed"],
   f |-> Done(f, Error(msg))]

\* EnterReset that goes to clearIndex with the graph in memory kept.
EnterReset_keepsGraph(w, f) ==
  [w |-> [w EXCEPT !.visible = {}, !.pristine = FALSE],
   f |-> [f EXCEPT !.op = "resetIndex", !.pc = "clear_meta"]]

\* The call `this.index = new HNSWIndex(); await this.db.clearIndex()` of
\* resetIndex, up to its first await.
EnterReset(w, f) ==
  [w |-> [w EXCEPT !.inst[f.inst].index = NewIndex, !.visible = {},
                   !.pristine = FALSE],
   f |-> [f EXCEPT !.op = "resetIndex", !.pc = "clear_meta"]]

\* The code of start() that follows an awaited call of the facade.
RunCont(w, f, val) ==
  CASE f.op = "getAllDocuments" ->
         EnterReset([w EXCEPT !.mgrs[f.mgr].status.total = Len(val)],
                    [f EXCEPT !.allDocs = val])
    [] f.op = "resetIndex" -> RunLoopTop(w, [f EXCEPT !.i = 0])
    [] f.op = "indexDocuments" ->
         LET b == Batch(f) IN
         [w |-> [w EXCEPT !.mgrs[f.mgr].status.processed = f.i + Len(b),
                          !.mgrs[f.mgr].status.lastProcessedId = b[Len(b)].id],
          f |-> [f EXCEPT !.op = "migrate", !.pc = "mig_yield", !.newDocs = <<>>,
                          !.touched = {}, !.metaL = NoMeta, !.nodesL = <<>>]]

\* An awaited call returns val to the frame's caller.
Ret(w, f, val) ==
  IF f.origin = "run" THEN RunCont(w, f, val)
  ELSE [w |-> w, f |-> Done(f, Result(val))]

\* Thr with a handler that also throws the in-memory graph away.
Thr_dropsGraph(w, f, msg) ==
  IF f.origin = "run" THEN RunCatch(w, f, msg)
  ELSE [w |-> [w EXCEPT !.inst[f.inst].index = NewIndex], f |-> Done(f, Error(msg))]

\* An awaited call throws.
Thr(w, f, msg) ==
  IF f.origin = "run" THEN RunCatch(w, f, msg)
  ELSE [w |-> w, f |-> Done(f, Error(msg))]

\* The loop `for (const doc of docs) if (doc.embedding) addPoint(...)`;
\* lv[k] is the level drawn for the k-th document.
RECURSIVE AddPointsFrom(_, _, _, _, _)
RECURSIVE AddPointsNext(_, _, _, _, _)
AddPointsFrom(g, ds, lv, k, touched) ==
  IF k > Len(ds) THEN [err |-> "", g |-> g, touched |-> touched]
  ELSE IF ds[k].embedding = NoEmbedding
    THEN AddPointsFrom(g, ds, lv, k + 1, touched)
  ELSE AddPointsNext(ds, lv, k, touched,
                     AddPoint(g, ds[k].id, ToFloat32(ds[k].embedding), lv[k]))

\* The loop after the k-th addPoint, which returned (or threw) r.
AddPointsNext(ds, lv, k, touched, r) ==
  IF r.err # ""
    THEN [err |-> r.err, g |-> r.g, touched |-> touched \cup r.touched]
    ELSE AddPointsFrom(r.g, ds, lv, k + 1, touched \cup r.touched)

\* After the insertions r into this.index: the error, or the call of
\* db.add / db.addMany.
Inserted(w, f, r) ==
  IF r.err # ""
    THEN Thr([w EXCEPT !.inst[f.inst].index = r.g,
                       !.pristine = @ /\ r.touched = {}], f, ErrMsg(r.err))
    ELSE [w |-> [w EXCEPT !.inst[f.inst].index = r.g,
                          !.pristine = @ /\ \A k \in 1..Len(f.newDocs) :
                                               f.newDocs[k].embedding # NoEmbedding],
          f |-> [f EXCEPT !.touched = r.touched, !.pc = "db_add"]]

\* The insertion into this.index and the call of db.add / db.addMany.
IndexBody(w, f, lv) ==
  Inserted(w, f, AddPointsFrom(w.inst[f.inst].index, f.newDocs, lv, 1, {}))

\* The method body that follows `await this.init()`.
Body(w, f, lv) ==
  IF f.op = "indexDocuments" THEN IndexBody(w, f, lv)
  ELSE [w |-> w, f |-> [f EXCEPT !.pc = "embed"]]

\* A call of a facade method, up to its first await.
EnterOp(w, f, lv) ==
  CASE f.op = "getAllDocuments" -> [w |-> w, f |-> [f EXCEPT !.pc = "get_all"]]
    [] f.op = "clear" ->
         [w |-> [w EXCEPT !.inst[f.inst].index = NewIndex, !.visible = {}],
          f |-> [f EXCEPT !.pc = "clear_docs"]]
    [] f.op = "resetIndex" -> EnterReset(w, f)
    [] OTHER ->
         IF w.inst[f.inst].initialized THEN Body(w, f, lv)
         ELSE [w |-> w, f |-> [f EXCEPT !.pc = "init_meta"]]

\* init() after loadIndexMeta: no meta, or the call of getAllNodes.
AfterInitMeta(w, f, lv, m) ==
  IF m.some THEN [w |-> w, f |-> [f EXCEPT !.metaL = m, !.pc = "init_nodes"]]
  ELSE Body([w EXCEPT !.inst[f.inst].initialized = TRUE], f, lv)

\* init() after getAllNodes: this.index = HNSWIndex.fromJSON(...).
AfterInitNodes(w, f, lv, nodes) ==
  Body([w EXCEPT !.inst[f.inst].index = FromJSON(f.metaL, nodes),
                 !.inst[f.inst].initialized = TRUE],
       [f EXCEPT !.metaL = NoMeta], lv)

\* MakeDocs with the id derived from the text instead of uuidv4().
MakeDocs_idFromText(w, f) ==
  [i \in 1..Len(f.texts) |->
     [ id        |-> IF f.texts[i] = "a" THEN 1 ELSE 2,
       text      |-> f.texts[i],
       metadata  |-> "none",
       embedding |-> Embed(w.inst[f.inst].embedder, f.texts[i]),
       createdAt |-> w.now ]]

\* The documents addDocument / addDocuments build from the embeddings:
\* id: uuidv4(), createdAt: Date.now().
MakeDocs(w, f) ==
  [i \in 1..Len(f.texts) |->
     [ id        |-> w.nextId + i - 1,
       text      |-> f.texts[i],
       metadata  |-> "none",
       embedding |-> Embed(w.inst[f.inst].embedder, f.texts[i]),
       createdAt |-> w.now ]]

\* UpdatedDocs that stamps the documents with the current time, as
\* addDocuments does for new documents.
UpdatedDocs_newStamp(w, f) ==
  LET b == Batch(f) IN
  [i \in 1..Len(b) |->
     [b[i] EXCEPT !.embedding = Embed(w.mgrs[f.mgr].target, b[i].text),
                  !.createdAt = w.now]]

\* migration: batch.map((doc, idx) => ({...doc, embedding: newEmbeddings[idx]}))
UpdatedDocs(w, f) ==
  LET b == Batch(f) IN
  [i \in 1..Len(b) |->
     [b[i] EXCEPT !.embedding = Embed(w.mgrs[f.mgr].target, b[i].text)]]

\* search after this.index.search returned (or threw) r: the call of getMany.
Searched(w, f, r) ==
  IF r.err THEN Thr(w, f, "TypeError")
  ELSE [w |-> w,
        f |-> [f EXCEPT !.results = r.res, !.pc = "get_many",
                        !.missed = (f.mustSee \cap w.visible)
                                      \ DOMAIN w.inst[f.inst].index.nodes]]

\* The code that follows the embedder's answer.
AfterEmbed(w, f, lv) ==
  CASE f.op \in {"addDocument", "addDocuments"} ->
         IndexBody([w EXCEPT !.nextId = @ + Len(f.texts), !.now = @ + 1],
                   [f EXCEPT !.newDocs = MakeDocs(w, f)], lv)
    [] f.op = "search" ->
         IF f.brute THEN [w |-> w, f |-> [f EXCEPT !.pc = "bf_getall"]]
         ELSE Searched(w, f,
                       HnswSearch(w.inst[f.inst].index,
                                  ToFloat32(Embed(w.inst[f.inst].embedder, f.texts[1])),
                                  f.k))
    [] f.op = "migrate" ->
         EnterOp(w, [f EXCEPT !.op = "indexDocuments", !.newDocs = UpdatedDocs(w, f),
                              !.inst = w.mgrs[f.mgr].indexer], lv)

\* saveIndex up to its first await: the meta of the graph as it is now.
AfterDbAdd(w, f) ==
  [w |-> w, f |-> [f EXCEPT !.metaL = ToMeta(w.inst[f.inst].index), !.pc = "save_meta"]]

\* What the method returns to its caller.
ReturnValue(f) ==
  CASE f.op = "addDocument" -> f.newDocs[1]
    [] f.op = "addDocuments" -> f.newDocs
    [] OTHER -> "void"

\* AfterSaveMeta with the call of saveNodes left out.
AfterSaveMeta_noNodes(w, f) == Ret(w, f, ReturnValue(f))

\* saveIndex after saveIndexMeta: the touched nodes the graph still holds.
AfterSaveMeta(w, f) ==
  LET g    == w.inst[f.inst].index
      ids  == SortedIds({id \in f.touched : id \in DOMAIN g.nodes})
      save == [i \in 1..Len(ids) |-> SerializeNode(g.nodes[ids[i]])]
  IN IF Len(save) > 0
       THEN [w |-> w, f |-> [f EXCEPT !.metaL = NoMeta, !.nodesL = save,
                                      !.pc = "save_nodes"]]
       ELSE Ret(w, f, ReturnValue(f))

AfterSaveNodes(w, f) == Ret(w, f, ReturnValue(f))

\* Brute force: every stored document with a non-empty embedding, scored,
\* sorted and cut to topK; then the call of getMany.
AfterBfGetAll(w, f, all) ==
  LET q      == Embed(w.inst[f.inst].embedder, f.texts[1])
      usable == SelectSeq(all, LAMBDA d : d.embedding # NoEmbedding)
      scored == [i \in 1..Len(usable) |->
                   [id |-> usable[i].id,
                    score |-> CosineSimilarity(q, usable[i].embedding)]]
  IN [w |-> w, f |-> [f EXCEPT !.results = Take(SortDesc(scored), f.k),
                               !.pc = "get_many"]]

\* results.map(...).filter(Boolean): a result without a document is dropped.
AfterGetMany(w, f, store) ==
  LET found == SelectSeq(f.results, LAMBDA r : r.id \in DOMAIN store)
      final == [i \in 1..Len(found) |->
                  [doc |-> store[found[i].id], score |-> found[i].score]]
  IN Ret(w, [f EXCEPT !.missed = @ \cup ((f.mustSee \cap w.visible) \ DOMAIN store)],
         final)

(***************************************************************************)
(* State                                                                   *)
(***************************************************************************)
VARIABLES
  inst,              \* the Vectoria objects: [index, initialized, embedder]
  indexer,           \* sw.ts `indexer`: the live Vectoria object
  docs,              \* the store `documents`: id -> document
  nodesStore,        \* the store `hnsw_nodes`: id -> serialized node
  meta,              \* the store `meta`, key "hnsw-meta"
  frames,            \* the calls and runs in flight, in the order they began
  dbq,               \* the frames that wait for a store, oldest first
  last,              \* the call that the last step settled, if any
  calls,             \* the number of calls of the facade so far
  mgrs,              \* the MigrationManager objects
  migrationManager,  \* sw.ts `migrationManager` (0: null)
  nextId,            \* the next id uuidv4 returns
  now,               \* Date.now()
  visible,           \* history: ids addDocument returned since the last
                     \* clear, resetIndex or migration run
  pristine,          \* history: one Vectoria object, no resetIndex, no
                     \* insertion that failed half-way, no document without
                     \* an embedding
  out                \* the outcome of the last direct addPoint call

vars == <<inst, indexer, docs, nodesStore, meta, frames, dbq, last, calls, mgrs,
          migrationManager, nextId, now, visible, pristine, out>>

\* new Vectoria({...}): an empty graph, not yet initialised.
NewVectoria(embedder) ==
  [index |-> NewIndex, initialized |-> FALSE, embedder |-> embedder]

EmptyStore == [x \in {} |-> x]

\* What is kept of a settled call.
Outcome(f) == [kind |-> f.kind, reply |-> f.reply, busy |-> f.busy, missed |-> f.missed]

\* The worker as sw.ts sets it up: one indexer with the local model, no
\* manager, empty stores.
Init ==
  /\ inst = <<NewVectoria("local")>>
  /\ indexer = 1
  /\ docs = EmptyStore
  /\ nodesStore = EmptyStore
  /\ meta = NoMeta
  /\ frames = <<>>
  /\ dbq = <<>>
  /\ last = Outcome(BlankFrame)
  /\ calls = 0
  /\ mgrs = <<>>
  /\ migrationManager = 0
  /\ nextId = 1
  /\ now = 1
  /\ visible = {}
  /\ pristine = TRUE
  /\ out = [err |-> "", touched |-> {}, id |-> NoId]

\* A library user: one Vectoria and one MigrationManager on it.
InitLib ==
  /\ inst = <<NewVectoria("local")>>
  /\ indexer = 1
  /\ docs = EmptyStore
  /\ nodesStore = EmptyStore
  /\ meta = NoMeta
  /\ frames = <<>>
  /\ dbq = <<>>
  /\ last = Outcome(BlankFrame)
  /\ calls = 0
  /\ mgrs = <<NewManager(1, "openai")>>
  /\ migrationManager = 1
  /\ nextId = 1
  /\ now = 1
  /\ visible = {}
  /\ pristine = TRUE
  /\ out = [err |-> "", touched |-> {}, id |-> NoId]

World == [inst |-> inst, mgrs |-> mgrs, nextId |-> nextId, now |-> now,
          visible |-> visible, pristine |-> pristine]

SomeRunning == \E m \in 1..Len(mgrs) : mgrs[m].isRunning

\* IndexedDB starts the transactions on one store in the order of their
\* creation when one of them writes: p is served once no older frame waits
\* for the same store with a conflicting operation.
DbReady(p) ==
  \A k \in 1..Len(dbq) :
     (\E j \in (k + 1)..Len(dbq) : dbq[j] = p) =>
        \/ DbStore(frames[dbq[k]].pc) # DbStore(frames[p].pc)
        \/ ~DbWrites(frames[dbq[k]].pc) /\ ~DbWrites(frames[p].pc)

\* A clear, a resetIndex or a migration run is in progress.
Disturbed ==
  \E q \in DOMAIN frames :
     frames[q].op \in {"clear", "resetIndex"} \/ frames[q].origin = "run"

\* visible once frame p has made its step: the id addDocument returns is
\* added, unless a clear, a resetIndex or a run is in progress.
Seen(e) ==
  IF /\ e.f.pc = "done" /\ e.f.kind \in {"ADD_DOC", "addDocument"}
     /\ e.f.reply.type = "result" /\ ~Disturbed
    THEN e.w.visible \cup {e.f.reply.val.id}
    ELSE e.w.visible

\* frames without its p-th element.
Without(p) == SubSeq(frames, 1, p - 1) \o SubSeq(frames, p + 1, Len(frames))

\* dbq once frame p has left its place in it and, when it is over, frames.
Requeue(p, f) ==
  LET q == SelectSeq(dbq, LAMBDA x : x # p)
  IN IF f.pc = "done" THEN [j \in 1..Len(q) |-> IF q[j] > p THEN q[j] - 1 ELSE q[j]]
     ELSE IF DbStore(f.pc) # "none" THEN Append(q, p)
     ELSE q

\* The step of frame p (a new frame when p = Len(frames) + 1) ends in memory
\* e.w and frame e.f; a frame that is over leaves frames.
Apply(p, e) ==
  /\ inst' = e.w.inst
  /\ mgrs' = e.w.mgrs
  /\ nextId' = e.w.nextId
  /\ now' = e.w.now
  /\ visible' = Seen(e)
  /\ pristine' = e.w.pristine
  /\ frames' = IF e.f.pc = "done" THEN Without(p)
               ELSE IF p > Len(frames) THEN Append(frames, e.f)
               ELSE [frames EXCEPT ![p] = e.f]
  /\ dbq' = Requeue(p, e.f)
  /\ last' = IF e.f.pc = "done" THEN Outcome(e.f) ELSE Outcome(BlankFrame)

\* The levels getRandomLevel draws for n insertions.
LevelsFor(n) == [1..n -> 0..FacadeLevelCap]

(***************************************************************************)
(* Resumptions: a frame continues after the await it is suspended at       *)
(***************************************************************************)
ResumeInitMeta(p) ==
  /\ p \in DOMAIN frames /\ frames[p].pc = "init_meta" /\ DbReady(p)
  /\ \E lv \in LevelsFor(Len(frames[p].newDocs)) :
        Apply(p, AfterInitMeta(World, frames[p], lv, meta))
  /\ UNCHANGED <<indexer, docs, nodesStore, meta, calls, migrationManager, out>>

ResumeInitNodes(p) ==
  /\ p \in DOMAIN frames /\ frames[p].pc = "init_nodes" /\ DbReady(p)
  /\ \E lv \in LevelsFor(Len(frames[p].newDocs)) :
        Apply(p, AfterInitNodes(World, frames[p], lv, nodesStore))
  /\ UNCHANGED <<indexer, docs, nodesStore, meta, calls, migrationManager, out>>

\* embed / embedBatch resolves.
EmbedResolves(p) ==
  /\ p \in DOMAIN frames /\ frames[p].pc = "embed"
  /\ \E lv \in LevelsFor(IF frames[p].op = "migrate" THEN Len(Batch(frames[p]))
                         ELSE Len(frames[p].texts)) :
        Apply(p, AfterEmbed(World, frames[p], lv))
  /\ UNCHANGED <<indexer, docs, nodesStore, meta, calls, migrationManager, out>>

\* embed / embedBatch rejects.
EmbedFails(p) ==
  /\ p \in DOMAIN frames /\ frames[p].pc = "embed"
  /\ Apply(p, Thr(World, frames[p], "Embedding failed"))
  /\ UNCHANGED <<indexer, docs, nodesStore, meta, calls, migrationManager, out>>

\* db.add(doc) / db.addMany(docs) is done.
ResumeDbAdd(p) ==
  /\ p \in DOMAIN frames /\ frames[p].pc = "db_add" /\ DbReady(p)
  /\ docs' = PutAll(docs, frames[p].newDocs)
  /\ Apply(p, AfterDbAdd(World, frames[p]))
  /\ UNCHANGED <<indexer, nodesStore, meta, calls, migrationManager, out>>

\* db.saveIndexMeta(meta) is done.
ResumeSaveMeta(p) ==
  /\ p \in DOMAIN frames /\ frames[p].pc = "save_meta" /\ DbReady(p)
  /\ meta' = frames[p].metaL
  /\ Apply(p, AfterSaveMeta(World, frames[p]))
  /\ UNCHANGED <<indexer, docs, nodesStore, calls, migrationManager, out>>

\* db.saveNodes(nodesToSave) is done.
ResumeSaveNodes(p) ==
  /\ p \in DOMAIN frames /\ frames[p].pc = "save_nodes" /\ DbReady(p)
  /\ nodesStore' = PutAll(nodesStore, frames[p].nodesL)
  /\ Apply(p, AfterSaveNodes(World, [frames[p] EXCEPT !.nodesL = <<>>]))
  /\ UNCHANGED <<indexer, docs, meta, calls, migrationManager, out>>

\* db.getAll() of a brute-force search is done.
ResumeBfGetAll(p) ==
  /\ p \in DOMAIN frames /\ frames[p].pc = "bf_getall" /\ DbReady(p)
  /\ Apply(p, AfterBfGetAll(World, frames[p], GetAll(docs)))
  /\ UNCHANGED <<indexer, docs, nodesStore, meta, calls, migrationManager, out>>

\* db.getMany(ids) is done.
ResumeGetMany(p) ==
  /\ p \in DOMAIN frames /\ frames[p].pc = "get_many" /\ DbReady(p)
  /\ Apply(p, AfterGetMany(World, frames[p], docs))
  /\ UNCHANGED <<indexer, docs, nodesStore, meta, calls, migrationManager, out>>

\* db.getAll() of getAllDocuments is done.
ResumeGetAll(p) ==
  /\ p \in DOMAIN frames /\ frames[p].pc = "get_all" /\ DbReady(p)
  /\ Apply(p, Ret(World, frames[p], GetAll(docs)))
  /\ UNCHANGED <<indexer, docs, nodesStore, meta, calls, migrationManager, out>>

\* ResumeClearDocs without the clearing of the 'documents' store.
ResumeClearDocs_keepsDocs(p) ==
  /\ p \in DOMAIN frames /\ frames[p].pc = "clear_docs" /\ DbReady(p)
  /\ docs' = docs
  /\ Apply(p, [w |-> World, f |-> [frames[p] EXCEPT !.pc = "clear_meta"]])
  /\ UNCHANGED <<indexer, nodesStore, meta, calls, migrationManager, out>>

\* db.clear('documents') of VectorStore.clear is done.
ResumeClearDocs(p) ==
  /\ p \in DOMAIN frames /\ frames[p].pc = "clear_docs" /\ DbReady(p)
  /\ docs' = EmptyStore
  /\ Apply(p, [w |-> World, f |-> [frames[p] EXCEPT !.pc = "clear_meta"]])
  /\ UNCHANGED <<indexer, nodesStore, meta, calls, migrationManager, out>>

\* db.clear('meta') of clear / clearIndex is done.
ResumeClearMeta(p) ==
  /\ p \in DOMAIN frames /\ frames[p].pc = "clear_meta" /\ DbReady(p)
  /\ meta' = NoMeta
  /\ Apply(p, [w |-> World, f |-> [frames[p] EXCEPT !.pc = "clear_nodes"]])
  /\ UNCHANGED <<indexer, docs, nodesStore, calls, migrationManager, out>>

\* db.clear('hnsw_nodes') is done: clear / resetIndex returns.
ResumeClearNodes(p) ==
  /\ p \in DOMAIN frames /\ frames[p].pc = "clear_nodes" /\ DbReady(p)
  /\ nodesStore' = EmptyStore
  /\ Apply(p, Ret(World, frames[p], "void"))
  /\ UNCHANGED <<indexer, docs, meta, calls, migrationManager, out>>

\* The timer between two batches fires: i += batchSize and the loop head.
ResumeYield(p) ==
  /\ p \in DOMAIN frames /\ frames[p].pc = "mig_yield"
  /\ Apply(p, RunLoopTop(World, [frames[p] EXCEPT !.i = @ + BatchSize]))
  /\ UNCHANGED <<indexer, docs, nodesStore, meta, calls, migrationManager, out>>

Resume(p) ==
  \/ ResumeInitMeta(p)
  \/ ResumeInitNodes(p)
  \/ EmbedResolves(p)
  \/ EmbedFails(p)
  \/ ResumeDbAdd(p)
  \/ ResumeSaveMeta(p)
  \/ ResumeSaveNodes(p)
  \/ ResumeBfGetAll(p)
  \/ ResumeGetMany(p)
  \/ ResumeGetAll(p)
  \/ ResumeClearDocs(p)
  \/ ResumeClearMeta(p)
  \/ ResumeClearNodes(p)
  \/ ResumeYield(p)

Procs == 1..MaxActive

(***************************************************************************)
(* Calls                                                                   *)
(***************************************************************************)
\* The frame of a new call of facade method op on Vectoria object i.
NewFrame(origin, kind, op, i) ==
  [BlankFrame EXCEPT !.origin = origin, !.kind = kind, !.op = op, !.inst = i,
                     !.busy = SomeRunning, !.mustSee = visible]

\* A caller awaits a call of a facade method.
Call(f, lv) ==
  /\ Len(frames) < MaxActive
  /\ calls < MaxCalls
  /\ calls' = calls + 1
  /\ Apply(Len(frames) + 1, EnterOp(World, f, lv))
  /\ UNCHANGED <<indexer, docs, nodesStore, meta, migrationManager, out>>

\* A call that settles without an await.
Settle(f, reply) ==
  /\ calls < MaxCalls
  /\ calls' = calls + 1
  /\ last' = Outcome(Done(f, reply))
  /\ UNCHANGED <<docs, nodesStore, meta, frames, dbq, nextId, now, out>>

\* The frame of a run of start() on manager m, at `await getAllDocuments()`.
RunFrame(m, i) ==
  [BlankFrame EXCEPT !.origin = "run", !.kind = "run", !.op = "getAllDocuments",
                     !.pc = "get_all", !.inst = i, !.mgr = m]

(***************************************************************************)
(* The message handler of the service worker                               *)
(***************************************************************************)
RecvAddDoc(text) ==
  Call([NewFrame("sw", "ADD_DOC", "addDocument", indexer) EXCEPT
          !.texts = <<text>>], <<>>)

RecvBatchAdd(items) ==
  Call([NewFrame("sw", "BATCH_ADD", "addDocuments", indexer) EXCEPT
          !.texts = items], <<>>)

RecvSearch(query, useBruteForce) ==
  Call([NewFrame("sw", "SEARCH", "search", indexer) EXCEPT
          !.texts = <<query>>, !.k = TopK, !.brute = useBruteForce], <<>>)

RecvGetAll == Call(NewFrame("sw", "GET_ALL", "getAllDocuments", indexer), <<>>)

RecvClear == Call(NewFrame("sw", "CLEAR", "clear", indexer), <<>>)

\* CONFIGURE: indexer = new Vectoria(...).
RecvConfigure(type) ==
  /\ Len(inst) < MaxInst
  /\ inst' = Append(inst, NewVectoria(type))
  /\ indexer' = Len(inst) + 1
  /\ Settle(NewFrame("sw", "CONFIGURE", "", indexer), Result("success"))
  /\ pristine' = FALSE
  /\ UNCHANGED <<mgrs, migrationManager, visible>>

\* MIGRATE_START with a target the handler cannot build: it throws.
RecvMigrateStartLocal ==
  /\ Settle(NewFrame("sw", "MIGRATE_START", "", indexer),
            Error("Migration to local model not fully implemented in SW yet"))
  /\ UNCHANGED <<inst, indexer, mgrs, migrationManager, visible, pristine>>

\* MIGRATE_START: migrationManager = new MigrationManager(indexer, target);
\* migrationManager.start() runs up to its first await and is not awaited.
RecvMigrateStart ==
  /\ Len(frames) < MaxActive
  /\ Len(mgrs) < MaxMgr
  /\ calls < MaxCalls
  /\ calls' = calls + 1
  /\ LET m == Len(mgrs) + 1
         s == ManagerStart(NewManager(indexer, "openai"))
         h == Done(NewFrame("sw", "MIGRATE_START", "", indexer), Result("started"))
     IN /\ mgrs' = Append(mgrs, s.mg)
        /\ migrationManager' = m
        /\ frames' = Append(frames, RunFrame(m, indexer))
        /\ dbq' = Append(dbq, Len(frames) + 1)
        /\ last' = Outcome(h)
  /\ visible' = {}
  /\ UNCHANGED <<inst, indexer, docs, nodesStore, meta, nextId, now, pristine, out>>

RecvMigrateStatus ==
  /\ Settle(NewFrame("sw", "MIGRATE_STATUS", "", indexer),
            IF migrationManager = 0 THEN Result("not_started")
            ELSE Result(mgrs[migrationManager].status))
  /\ UNCHANGED <<inst, indexer, mgrs, migrationManager, visible, pristine>>

RecvMigrateStop ==
  /\ Settle(NewFrame("sw", "MIGRATE_STOP", "", indexer),
            IF migrationManager = 0 THEN Result("No migration running")
            ELSE Result("stopped"))
  /\ mgrs' = IF migrationManager = 0 THEN mgrs
             ELSE [mgrs EXCEPT ![migrationManager] = ManagerStop(@)]
  /\ UNCHANGED <<inst, indexer, migrationManager, visible, pristine>>

\* RecvUnknown with a handler that also forgets the migration manager.
RecvUnknown_dropsManager ==
  /\ Settle(NewFrame("sw", "UNKNOWN", "", indexer), Error("Unknown message type"))
  /\ migrationManager' = 0
  /\ UNCHANGED <<inst, indexer, mgrs, visible, pristine>>

\* default: throw new Error(`Unknown message type: ${type}`)
RecvUnknown ==
  /\ Settle(NewFrame("sw", "UNKNOWN", "", indexer), Error("Unknown message type"))
  /\ UNCHANGED <<inst, indexer, mgrs, migrationManager, visible, pristine>>

\* The documents that calls in flight will still create.
Pending ==
  Cardinality({<<p, i>> \in (1..MaxActive) \X (1..MaxDocs) :
                 /\ p \in DOMAIN frames
                 /\ frames[p].op \in {"addDocument", "addDocuments"}
                 /\ frames[p].newDocs = <<>>
                 /\ i <= Len(frames[p].texts)})

\* The model creates at most MaxDocs documents.
Room(n) == nextId + Pending + n <= MaxDocs + 1

\* The batches a BATCH_ADD carries, and the queries of a SEARCH.
Batches == {<<"a", "b">>}
Queries == {"a"}

Receive ==
  \/ \E t \in Texts : Room(1) /\ RecvAddDoc(t)
  \/ \E b \in Batches : Room(Len(b)) /\ RecvBatchAdd(b)
  \/ \E q \in Queries, bf \in BOOLEAN : RecvSearch(q, bf)
  \/ RecvGetAll
  \/ RecvClear
  \/ \E t \in Embedders : RecvConfigure(t)
  \/ RecvMigrateStartLocal
  \/ RecvMigrateStart
  \/ RecvMigrateStatus
  \/ RecvMigrateStop
  \/ RecvUnknown

Next == Receive \/ \E p \in Procs : Resume(p)

Spec == Init /\ [][Next]_vars

\* The worker when every awaited store, embedder and timer call returns, so
\* that a suspended handler or run is resumed in the end: weak fairness of
\* the resumptions, written with their enabling condition (some resumption
\* is enabled exactly when a handler or a run is suspended).
SpecFair ==
  Spec /\ ([]<>(frames = <<>>) \/ []<><<\E p \in Procs : Resume(p)>>_vars)

(***************************************************************************)
(* A library user: direct calls on a Vectoria and on one MigrationManager  *)
(***************************************************************************)
\* new Vectoria() on the same database, which the user works with from now.
LibOpen ==
  /\ Len(inst) < MaxInst
  /\ inst' = Append(inst, NewVectoria("local"))
  /\ indexer' = Len(inst) + 1
  /\ Settle(NewFrame("lib", "new", "", indexer), Result("void"))
  /\ pristine' = FALSE
  /\ UNCHANGED <<mgrs, migrationManager, visible>>

LibAddDocument(text) ==
  Call([NewFrame("lib", "addDocument", "addDocument", indexer) EXCEPT
          !.texts = <<text>>], <<>>)

LibAddDocuments(items) ==
  Call([NewFrame("lib", "addDocuments", "addDocuments", indexer) EXCEPT
          !.texts = items], <<>>)

LibIndexDocuments(ds) ==
  \E lv \in LevelsFor(Len(ds)) :
     Call([NewFrame("lib", "indexDocuments", "indexDocuments", indexer) EXCEPT
             !.newDocs = ds], lv)

LibResetIndex == Call(NewFrame("lib", "resetIndex", "resetIndex", indexer), <<>>)

LibSearch(query, topK, useBruteForce) ==
  Call([NewFrame("lib", "search", "search", indexer) EXCEPT
          !.texts = <<query>>, !.k = topK, !.brute = useBruteForce], <<>>)

LibGetAllDocuments ==
  Call(NewFrame("lib", "getAllDocuments", "getAllDocuments", indexer), <<>>)

LibClear == Call(NewFrame("lib", "clear", "clear", indexer), <<>>)

\* manager.start(): rejected at once while a run is in progress, else the
\* run begins and suspends at `await this.indexer.getAllDocuments()`.
LibStart ==
  /\ LET s == ManagerStart(mgrs[1])
         c == NewFrame("lib", "start", "", 1)
     IN /\ mgrs' = [mgrs EXCEPT ![1] = s.mg]
        /\ calls < MaxCalls
        /\ calls' = calls + 1
        /\ IF s.threw
             THEN /\ last' = Outcome(Done(c, Error("Migration already running")))
                  /\ UNCHANGED <<frames, dbq, visible>>
             ELSE /\ Len(frames) < MaxActive
                  /\ frames' = Append(frames, RunFrame(1, mgrs[1].indexer))
                  /\ dbq' = Append(dbq, Len(frames) + 1)
                  /\ last' = Outcome(Done(c, Result("started")))
                  /\ visible' = {}
  /\ UNCHANGED <<inst, indexer, docs, nodesStore, meta, migrationManager,
                 nextId, now, pristine, out>>

\* manager.stop()
LibStop ==
  /\ Settle(NewFrame("lib", "stop", "", 1), Result("void"))
  /\ mgrs' = [mgrs EXCEPT ![1] = ManagerStop(@)]
  /\ UNCHANGED <<inst, indexer, migrationManager, visible, pristine>>

\* A document that comes from outside (an import), under the id ImportedId.
Imported ==
  [ id |-> ImportedId, text |-> "a", metadata |-> "none",
    embedding |-> Embed("local", "a"), createdAt |-> 0 ]

\* The arguments of indexDocuments: the stored documents, the imported
\* document, the imported document twice, or without its embedding.
IndexInputs ==
  { GetAll(docs), <<Imported>>, <<Imported, Imported>>,
    <<[Imported EXCEPT !.embedding = NoEmbedding]>> }

LibCall ==
  \/ LibOpen
  \/ \E t \in Texts : Room(1) /\ LibAddDocument(t)
  \/ \E b \in Batches : Room(Len(b)) /\ LibAddDocuments(b)
  \/ \E ds \in IndexInputs : LibIndexDocuments(ds)
  \/ LibResetIndex
  \/ \E q \in Queries, k \in {1, TopK}, bf \in BOOLEAN : LibSearch(q, k, bf)
  \/ LibGetAllDocuments
  \/ LibClear
  \/ LibStart
  \/ LibStop

NextLib == LibCall \/ \E p \in Procs : Resume(p)

SpecLib == InitLib /\ [][NextLib]_vars

\* A library user who only calls addDocument.
NextAdd ==
  \/ \E t \in Texts : Room(1) /\ LibAddDocument(t)
  \/ \E p \in Procs :
        \/ ResumeInitMeta(p)
        \/ EmbedResolves(p)
        \/ EmbedFails(p)
        \/ ResumeDbAdd(p)
        \/ ResumeSaveMeta(p)
        \/ ResumeSaveNodes(p)

SpecAdd == InitLib /\ [][NextAdd]_vars

\* A library user who only inserts: addDocument, addDocuments and
\* indexDocuments with the stored documents or with one imported document,
\* with or without its embedding.
NextInsert ==
  \/ \E t \in Texts : Room(1) /\ LibAddDocument(t)
  \/ \E b \in Batches : Room(Len(b)) /\ LibAddDocuments(b)
  \/ \E ds \in IndexInputs \ {<<Imported, Imported>>} : LibIndexDocuments(ds)
  \/ \E p \in Procs :
        \/ ResumeInitMeta(p)
        \/ EmbedResolves(p)
        \/ EmbedFails(p)
        \/ ResumeDbAdd(p)
        \/ ResumeSaveMeta(p)
        \/ ResumeSaveNodes(p)

SpecInsert == InitLib /\ [][NextInsert]_vars

\* The process stops while insertions are in flight and the user reopens the
\* index: the calls in flight and the writes they had not committed are
\* gone, the stores keep what was committed, and a new Vectoria is made.
Crash ==
  /\ frames # <<>>
  /\ \A p \in DOMAIN frames : frames[p].op \in {"addDocument", "addDocuments"}
  /\ Len(inst) < MaxInst
  /\ inst' = Append(inst, NewVectoria("local"))
  /\ indexer' = Len(inst) + 1
  /\ frames' = <<>>
  /\ dbq' = <<>>
  /\ last' = Outcome(BlankFrame)
  /\ visible' = {}
  /\ pristine' = FALSE
  /\ UNCHANGED <<docs, nodesStore, meta, calls, mgrs, migrationManager, nextId,
                 now, out>>

\* A library user who inserts and searches, and whose process may stop in
\* the middle of insertions.
NextCrash ==
  \/ \E t \in Texts : Room(1) /\ LibAddDocument(t)
  \/ \E b \in Batches : Room(Len(b)) /\ LibAddDocuments(b)
  \/ \E q \in Queries, bf \in BOOLEAN : LibSearch(q, TopK, bf)
  \/ Crash
  \/ \E p \in Procs :
        \/ ResumeInitMeta(p)
        \/ ResumeInitNodes(p)
        \/ EmbedResolves(p)
        \/ EmbedFails(p)
        \/ ResumeDbAdd(p)
        \/ ResumeSaveMeta(p)
        \/ ResumeSaveNodes(p)
        \/ ResumeBfGetAll(p)
        \/ ResumeGetMany(p)

SpecCrash == InitLib /\ [][NextCrash]_vars

\* A library user who awaits every call of the facade before the next one
\* and starts the migration when nothing else is in flight; stop() can be
\* called at any moment.
NextMig ==
  \/ frames = <<>> /\ \E t \in Texts : Room(1) /\ LibAddDocument(t)
  \/ frames = <<>> /\ \E b \in Batches : Room(Len(b)) /\ LibAddDocuments(b)
  \/ frames = <<>> /\ \E ds \in IndexInputs : LibIndexDocuments(ds)
  \/ frames = <<>> /\ LibClear
  \/ frames = <<>> /\ LibStart
  \/ LibStop
  \/ \E p \in Procs :
        \/ ResumeInitMeta(p)
        \/ EmbedResolves(p)
        \/ EmbedFails(p)
        \/ ResumeDbAdd(p)
        \/ ResumeSaveMeta(p)
        \/ ResumeSaveNodes(p)
        \/ ResumeGetAll(p)
        \/ ResumeClearDocs(p)
        \/ ResumeClearMeta(p)
        \/ ResumeClearNodes(p)
        \/ ResumeYield(p)

SpecMig == InitLib /\ [][NextMig]_vars

\* The same user in a later session: the database already holds what
\* indexDocuments([{id: ImportedId, text: "a", createdAt: 0}]) left in it,
\* the document and the Meta record of an empty graph.
InitStored ==
  /\ inst = <<NewVectoria("local")>>
  /\ indexer = 1
  /\ docs = (ImportedId :> [Imported EXCEPT !.embedding = NoEmbedding])
  /\ nodesStore = EmptyStore
  /\ meta = ToMeta(NewIndex)
  /\ frames = <<>>
  /\ dbq = <<>>
  /\ last = Outcome(BlankFrame)
  /\ calls = 0
  /\ mgrs = <<NewManager(1, "openai")>>
  /\ migrationManager = 1
  /\ nextId = 1
  /\ now = 1
  /\ visible = {}
  /\ pristine = FALSE
  /\ out = [err |-> "", touched |-> {}, id |-> NoId]

SpecRestart == InitStored /\ [][NextMig]_vars

\* A library user who awaits every call of the facade before the next one,
\* and may go on with a fresh Vectoria on the same database.
NextSeq ==
  \/ frames = <<>> /\ LibOpen
  \/ frames = <<>> /\ \E t \in Texts : Room(1) /\ LibAddDocument(t)
  \/ frames = <<>> /\ \E b \in Batches : Room(Len(b)) /\ LibAddDocuments(b)
  \/ frames = <<>> /\ \E ds \in IndexInputs : LibIndexDocuments(ds)
  \/ frames = <<>> /\ LibResetIndex
  \/ frames = <<>> /\ \E q \in Texts, k \in {1, TopK}, bf \in BOOLEAN : LibSearch(q, k, bf)
  \/ frames = <<>> /\ LibGetAllDocuments
  \/ frames = <<>> /\ LibClear
  \/ \E p \in Procs :
        \/ ResumeInitMeta(p)
        \/ ResumeInitNodes(p)
        \/ EmbedResolves(p)
        \/ EmbedFails(p)
        \/ ResumeDbAdd(p)
        \/ ResumeSaveMeta(p)
        \/ ResumeSaveNodes(p)
        \/ ResumeBfGetAll(p)
        \/ ResumeGetMany(p)
        \/ ResumeGetAll(p)
        \/ ResumeClearDocs(p)
        \/ ResumeClearMeta(p)
        \/ ResumeClearNodes(p)

SpecSeq == InitLib /\ [][NextSeq]_vars

(***************************************************************************)
(* The graph alone: direct calls of addPoint on one HNSWIndex              *)
(***************************************************************************)
Graph == inst[1].index

\* The call addPoint(id, vector) returned (or threw) r.
GraphCalled(id, r) ==
  /\ inst' = [inst EXCEPT ![1].index = r.g]
  /\ out' = [err |-> r.err, touched |-> r.touched, id |-> id]
  /\ UNCHANGED <<indexer, docs, nodesStore, meta, frames, dbq, last, calls, mgrs,
                 migrationManager, nextId, now, visible, pristine>>

\* addPoint(id, vector) with a fresh id; level is what getRandomLevel draws.
GraphAddPoint(vector, level) ==
  /\ Cardinality(DOMAIN Graph.nodes) < MaxNodes
  /\ GraphCalled(Cardinality(DOMAIN Graph.nodes) + 1,
                 AddPoint(Graph, Cardinality(DOMAIN Graph.nodes) + 1, vector, level))

\* addPoint(id, vector) with an id the graph holds: it throws.
GraphAddDuplicate(id, vector) ==
  /\ id \in DOMAIN Graph.nodes
  /\ GraphCalled(id, AddPoint(Graph, id, vector, 0))

GraphNext ==
  \/ \E v \in Vectors, level \in Levels : GraphAddPoint(v, level)
  \/ \E id \in 1..MaxNodes, v \in Vectors : GraphAddDuplicate(id, v)

SpecGraph == Init /\ [][GraphNext]_vars

(***************************************************************************)
(* Properties of the graph                                                 *)
(***************************************************************************)
NodeIds(g) == DOMAIN g.nodes

NeighborsOk(g) ==
  \A n \in NodeIds(g) : \A L \in 0..g.nodes[n].level :
     HasLayer(g, n, L) /\ Len(g.nodes[n].neighbors[L + 1]) <= g.M

\* C1: after any sequence of addPoint calls on an empty graph, every node
\* has at most M neighbours on each of its layers 0..level.
C1_NeighborsAtMostM == NeighborsOk(Graph)

\* C1 witness: the last addPoint linked the new node to a neighbour whose
\* list was full, and the shrink dropped the new id from it again.
C1_Witness ==
  /\ out.err = "" /\ out.id \in NodeIds(Graph)
  /\ \E n \in SeqToSet(Graph.nodes[out.id].neighbors[1]) :
        /\ Len(Graph.nodes[n].neighbors[1]) = Graph.M
        /\ out.id \notin SeqToSet(Graph.nodes[n].neighbors[1])

EntryPointOk(g) ==
  /\ (g.entryPointId = NoId) <=> (NodeIds(g) = {})
  /\ g.entryPointId # NoId =>
        /\ g.entryPointId \in NodeIds(g)
        /\ g.nodes[g.entryPointId].level = g.maxLevel
        /\ \A n \in NodeIds(g) : g.nodes[n].level <= g.nodes[g.entryPointId].level

Running == {m \in 1..Len(mgrs) : mgrs[m].isRunning}

\* C3: through the dispatch at most one migration run is in progress at a
\* time: a MIGRATE_START that arrives while a run is in progress is answered
\* with an error and starts no second run.
C3_OneRunViaDispatch ==
  /\ Cardinality(Running) <= 1
  /\ (last.kind = "MIGRATE_START" /\ last.busy) => last.reply.type = "error"

\* C4: start() on a manager whose run is in progress rejects with
\* 'Migration already running' and changes neither the status, nor the
\* running flag, nor the stop flag, nor the run in progress.
C4_StartWhileRunning ==
  [][(mgrs[1].isRunning /\ last'.kind = "start") =>
       /\ last'.reply = Error("Migration already running")
       /\ mgrs' = mgrs
       /\ frames' = frames
       /\ <<inst, docs, nodesStore, meta>>' = <<inst, docs, nodesStore, meta>>]_vars

\* A start() was rejected and the run it met is still in progress.
C4_Witness ==
  /\ last.kind = "start"
  /\ last.reply = Error("Migration already running")
  /\ mgrs[1].isRunning
  /\ \E p \in DOMAIN frames : frames[p].origin = "run" /\ frames[p].op = "migrate"

\* C5: the dispatch handles one request at a time: no two message handlers
\* are suspended at the same time.
C5_OneHandlerAtATime ==
  Cardinality({p \in DOMAIN frames : frames[p].origin = "sw"}) <= 1

\* The run of frame f is between its call of resetIndex and its end.
PastReset(f) ==
  f.origin = "run" /\ f.op \in {"resetIndex", "migrate", "indexDocuments"}

\* C6: while a migration run is between its resetIndex and its end, no other
\* actor changes the graph of the run's indexer or the stores: a step that
\* is not a step of the run leaves them as they are (the other requests in
\* flight being requests that arrived during a run).
C6_RunIsExclusive ==
  [][\A p \in DOMAIN frames :
       (/\ PastReset(frames[p]) /\ p \in DOMAIN frames' /\ frames'[p] = frames[p]
        /\ \A q \in DOMAIN frames \ {p} : frames[q].busy) =>
          /\ <<docs, nodesStore, meta>>' = <<docs, nodesStore, meta>>
          /\ inst'[frames[p].inst].index = inst[frames[p].inst].index]_vars

\* The ids an insertion in flight is inserting.
Inserting(f) ==
  IF f.op \in {"addDocument", "addDocuments", "indexDocuments"}
    THEN {f.newDocs[k].id : k \in {j \in 1..Len(f.newDocs) :
                                     f.newDocs[j].embedding # NoEmbedding}}
    ELSE {}

\* C7: while addDocument, addDocuments or indexDocuments is suspended, each
\* id it is inserting is in the graph and in the Documents store, or in
\* neither of them.
C7_InsertAtomicForSearch ==
  \A p \in DOMAIN frames : \A id \in Inserting(frames[p]) :
     (id \in NodeIds(inst[frames[p].inst].index)) <=> (id \in DOMAIN docs)

\* C8: a SEARCH that arrives after ADD_DOC has returned d runs against a
\* graph that holds d's node and a Documents store that holds d, unless a
\* clear, a resetIndex or a migration came in between.
C8_SearchSeesReturned ==
  /\ \A p \in DOMAIN frames : frames[p].kind = "SEARCH" => frames[p].missed = {}
  /\ last.kind = "SEARCH" => last.missed = {}

AddKinds == {"addDocument", "addDocuments", "indexDocuments"}

C10_EveryAddIsNew ==
  /\ [](last.kind = "addDocument" /\ last.reply.type = "error" =>
          last.reply.msg = "Embedding failed")
  /\ [](frames = <<>> => DOMAIN docs = visible /\ DOMAIN nodesStore = visible)
  /\ [][(last'.kind = "addDocument" /\ last'.reply.type = "result") =>
          /\ last'.reply.val.id \notin visible
          /\ visible' = visible \cup {last'.reply.val.id}]_vars

\* Two calls with the same text have returned two documents.
C10_Witness ==
  /\ frames = <<>>
  /\ Cardinality(visible) = 2
  /\ \A i \in visible : i \in DOMAIN docs /\ docs[i].text = "a"


(***************************************************************************)
(* Properties of failures, reloads and crashes                             *)
(***************************************************************************)
\* The step is one of frame p, which stays in flight.
Continues(p) ==
  /\ p \in DOMAIN frames /\ Len(frames') >= Len(frames) /\ frames'[p] # frames[p]

\* The step is one of frame p, which settles in it.
Settles(p) ==
  /\ p \in DOMAIN frames /\ Len(frames') < Len(frames) /\ frames' = Without(p)

\* An addDocument or addDocuments call whose embedder has not answered yet.
Embedding(f) ==
  /\ f.op \in {"addDocument", "addDocuments"} /\ f.newDocs = <<>>
  /\ f.pc \in {"init_meta", "init_nodes", "embed"}

\* C11: an addDocument or addDocuments call that settles before it has
\* built its documents settles with an error; when that error is the
\* embedder's, no step of the call up to and including the failure has
\* written a store or changed the in-memory graph, except that init replaces
\* the graph by the one loaded from the Meta and Nodes stores.
C11_EmbedderFailure ==
  [][\A p \in DOMAIN frames :
       Embedding(frames[p]) =>
         /\ Settles(p) =>
              /\ frames[p].pc = "embed"
              /\ last'.kind = frames[p].kind /\ last'.reply.type = "error"
              /\ last'.reply.msg = "Embedding failed" =>
                   <<inst, docs, nodesStore, meta>>' = <<inst, docs, nodesStore, meta>>
         /\ (Continues(p) /\ Embedding(frames'[p])) =>
              /\ <<docs, nodesStore, meta>>' = <<docs, nodesStore, meta>>
              /\ inst'[frames[p].inst].index =
                   IF frames[p].pc = "init_nodes"
                     THEN FromJSON(frames[p].metaL, nodesStore)
                     ELSE inst[frames[p].inst].index]_vars

\* The embedder failed in an addDocuments call on an index that holds a
\* document and its node.
C11_Witness ==
  /\ last.kind = "addDocuments" /\ last.reply = Error("Embedding failed")
  /\ DOMAIN docs # {}
  /\ DOMAIN docs = DOMAIN inst[indexer].index.nodes

\* indexDocuments([d]) called on Vectoria object i, which is initialised.
IndexOne(i, d) ==
  IndexBody(World,
            [NewFrame("lib", "indexDocuments", "indexDocuments", i) EXCEPT
               !.newDocs = <<d>>],
            <<0>>)

\* C12: in every graph a Vectoria object can hold, addPoint with an id of the
\* graph throws the duplicate-id error and returns the graph as it was (node
\* map, neighbour lists, entryPointId, maxLevel); indexDocuments with such a
\* document rejects with that error and leaves every Vectoria object as it was.
C12_DuplicateId ==
  \A i \in DOMAIN inst : \A id \in DOMAIN inst[i].index.nodes :
     \A v \in Vectors :
        /\ \A l \in Levels :
              AddPoint(inst[i].index, id, v, l) =
                 [err |-> "exists", g |-> inst[i].index, touched |-> {}]
        /\ IndexOne(i, [Imported EXCEPT !.id = id, !.embedding = v]).f.reply
              = Error("Node already exists")
        /\ IndexOne(i, [Imported EXCEPT !.id = id, !.embedding = v]).w.inst = inst

\* indexDocuments has rejected with the duplicate-id error on a graph that
\* holds a node.
C12_Witness ==
  /\ last.kind = "indexDocuments" /\ last.reply = Error("Node already exists")
  /\ DOMAIN inst[indexer].index.nodes # {}

\* The graph a fresh Vectoria object holds once its init has run: the
\* constructor's empty graph when there is no Meta record, else fromJSON of
\* the Meta record and the stored nodes.
Reopened == IF meta.some THEN FromJSON(meta, nodesStore) ELSE NewIndex

\* C13: once the insertions of a writer that only inserts have all settled,
\* the graph a fresh instance loads equals the writer's in-memory graph
\* (nodes with their vectors, levels and neighbour lists, maxLevel,
\* entryPointId, M, efConstruction, efSearch), and a search returns the same
\* results on both.
C13_ReloadEqualsWriter ==
  frames = <<>> =>
    /\ Reopened = inst[1].index
    /\ \A t \in Texts :
          HnswSearch(Reopened, ToFloat32(Embed("local", t)), TopK)
            = HnswSearch(inst[1].index, ToFloat32(Embed("local", t)), TopK)

\* Three insertions have settled and the stored graph has linked nodes.
C13_Witness ==
  /\ frames = <<>>
  /\ meta.some
  /\ Cardinality(DOMAIN nodesStore) = 3
  /\ \A id \in DOMAIN nodesStore : nodesStore[id].neighbors[1] # <<>>
  /\ Reopened = inst[1].index

\* C14: whatever the point at which execution stops during insertions, the
\* Meta record in the store names no entryPointId that the Nodes store does
\* not hold (every reachable state is a state execution can stop in).
C14_MetaEntryIsStored ==
  (meta.some /\ meta.entryPointId # NoId) => meta.entryPointId \in DOMAIN nodesStore

\* C15: after the process has stopped inside an insertion and the index has
\* been reopened, no search fails with an error of the engine (the only
\* error a search settles with is the embedder's), and every result it
\* returns is a stored document.
C15_SearchAfterCrash ==
  (Len(inst) > 1 /\ last.kind = "search") =>
     /\ last.reply.type = "error" => last.reply.msg = "Embedding failed"
     /\ last.reply.type = "result" =>
          \A k \in 1..Len(last.reply.val) :
             last.reply.val[k].doc.id \in DOMAIN docs

\* C16: a search over a graph whose entry point exists completes without
\* error even when a neighbour list names an id that has no node (the id is
\* skipped), and every result of a settled search has its document in the
\* Documents store (a result without a document is dropped).
C16_DanglingIdsSkipped ==
  /\ \A i \in DOMAIN inst :
        inst[i].index.entryPointId \in DOMAIN inst[i].index.nodes =>
           \A t \in Texts :
              ~HnswSearch(inst[i].index, ToFloat32(Embed("local", t)), TopK).err
  /\ (last.kind = "search" /\ last.reply.type = "result") =>
        \A k \in 1..Len(last.reply.val) : last.reply.val[k].doc.id \in DOMAIN docs

(***************************************************************************)
(* Properties of the migration                                             *)
(***************************************************************************)
\* C17: a run of the manager that ends without error and without a stop,
\* with no other call in progress during it, leaves total = processed = the
\* number N of stored documents, isComplete = true, lastProcessedId = the id
\* of the last document (when N > 0) and a graph whose nodes are exactly the
\* N documents.
C17_CompleteRun ==
  (last.kind = "run" /\ last.reply.type = "result" /\ ~mgrs[1].shouldStop) =>
     /\ mgrs[1].status.total = Cardinality(DOMAIN docs)
     /\ mgrs[1].status.processed = Cardinality(DOMAIN docs)
     /\ mgrs[1].status.isComplete
     /\ DOMAIN docs # {} => \A id \in DOMAIN docs : id <= mgrs[1].status.lastProcessedId
     /\ DOMAIN docs # {} => mgrs[1].status.lastProcessedId \in DOMAIN docs
     /\ DOMAIN inst[1].index.nodes = DOMAIN docs

\* The Documents store with the embeddings left out.
Kept ==
  [id \in DOMAIN docs |->
     [id |-> docs[id].id, text |-> docs[id].text,
      metadata |-> docs[id].metadata, createdAt |-> docs[id].createdAt]]

\* C18: no step taken while a run of the migration is in progress - up to
\* and including the step in which the run finishes, is stopped or fails -
\* changes the ids in the Documents store or the text, metadata or
\* createdAt of a stored document: a run changes embeddings only.
C18_OnlyEmbeddingChanges ==
  [][(\E p \in DOMAIN frames : frames[p].origin = "run") => Kept' = Kept]_vars

C18_Witness ==
  /\ last.kind = "run"
  /\ Cardinality(DOMAIN docs) = 3
  /\ \A id \in DOMAIN docs : docs[id].embedding = Embed("openai", docs[id].text)
  /\ \E id \in DOMAIN docs : docs[id].createdAt # now

\* The number of documents in the batches a run has completed.
Completed(f) ==
  IF f.pc = "mig_yield" THEN Min(f.i + BatchSize, Len(f.allDocs)) ELSE f.i

\* The frame calls targetEmbedder.embedBatch: a batch starts.
StartsBatch(p) ==
  /\ Continues(p)
  /\ frames'[p].op = "migrate" /\ frames'[p].pc = "embed"
  /\ ~(frames[p].op = "migrate" /\ frames[p].pc = "embed")

\* C19: once stop() has been called during a run, the run starts no
\* further batch, and when it ends the manager is not running, isComplete
\* is false and processed is the number of documents in the batches the
\* run completed.
C19_StopEndsRun ==
  [][\A p \in DOMAIN frames :
       (frames[p].origin = "run" /\ mgrs[frames[p].mgr].shouldStop) =>
          /\ ~StartsBatch(p)
          /\ Settles(p) =>
               /\ ~mgrs'[frames[p].mgr].isRunning
               /\ ~mgrs'[frames[p].mgr].status.isComplete
               /\ mgrs'[frames[p].mgr].status.processed = Completed(frames[p])]_vars

\* C20: a run over a snapshot that is not empty which ends without error
\* after it has processed every batch of the snapshot (processed = total)
\* leaves isComplete = true, whether or not stop() was called during it.
C20_AllProcessedIsComplete ==
  [][\A p \in DOMAIN frames :
       (/\ frames[p].origin = "run"
        /\ Settles(p)
        /\ last'.reply.type = "result"
        /\ Len(frames[p].allDocs) > 0
        /\ Completed(frames[p]) = Len(frames[p].allDocs)
        /\ mgrs'[frames[p].mgr].status.processed = mgrs'[frames[p].mgr].status.total)
       => mgrs'[frames[p].mgr].status.isComplete]_vars

\* C21: a start() that follows a run ended by stop or by error is accepted,
\* and the run it begins, when it ends without error and without a stop,
\* leaves processed = total and isComplete = true, every stored document
\* re-embedded by the target embedder and indexed in the graph.
C21_RestartCompletes ==
  [][/\ (last'.kind = "start" /\ ~mgrs[1].isRunning /\ mgrs[1].ended \in {"stopped", "failed"})
          => last'.reply = Result("started")
     /\ \A p \in DOMAIN frames :
          (/\ frames[p].origin = "run"
           /\ mgrs[frames[p].mgr].ended \in {"stopped", "failed"}
           /\ ~mgrs[frames[p].mgr].shouldStop
           /\ Settles(p)
           /\ last'.reply.type = "result")
          => /\ mgrs'[frames[p].mgr].status.processed = mgrs'[frames[p].mgr].status.total
             /\ mgrs'[frames[p].mgr].status.isComplete
             /\ DOMAIN inst'[1].index.nodes = DOMAIN docs'
             /\ \A id \in DOMAIN docs' : docs'[id].embedding = Embed("openai", docs'[id].text)]_vars

\* C22: when a run ends by an error, start() rejects with it, status.error
\* is its message, the manager is not running, the run has not set
\* isComplete, processed is the number of documents in the batches the run
\* completed, the graph holds exactly those documents, and the Documents
\* store still holds every document of the snapshot.
C22_FailedRun ==
  [][\A p \in DOMAIN frames :
       (frames[p].origin = "run" /\ Settles(p) /\ last'.reply.type = "error") =>
          LET m == frames[p].mgr
              n == Completed(frames[p])
          IN /\ last'.kind = "run"
             /\ mgrs'[m].status.error = last'.reply.msg
             /\ ~mgrs'[m].isRunning
             /\ mgrs'[m].status.isComplete = mgrs[m].status.isComplete
             /\ mgrs'[m].status.processed = n
             /\ DOMAIN inst'[frames[p].inst].index.nodes =
                  {frames[p].allDocs[k].id : k \in 1..n}
             /\ DOMAIN docs' = {frames[p].allDocs[k].id : k \in 1..Len(frames[p].allDocs)}]_vars


\* C23: at the moment a run sets isComplete, every document in the
\* Documents store has the embedding the run's target embedder gives its
\* text and has a node in the graph of the run's indexer, documents added
\* while the run was in progress included.
C23_CompleteCoversAll ==
  [][\A p \in DOMAIN frames :
       (/\ frames[p].origin = "run"
        /\ Settles(p)
        /\ ~mgrs[frames[p].mgr].status.isComplete
        /\ mgrs'[frames[p].mgr].status.isComplete)
       => \A id \in DOMAIN docs' :
            /\ docs'[id].embedding = Embed(mgrs[frames[p].mgr].target, docs'[id].text)
            /\ id \in DOMAIN inst'[frames[p].inst].index.nodes]_vars

AllEmpty ==
  /\ docs = EmptyStore /\ nodesStore = EmptyStore /\ meta = NoMeta
  /\ inst[indexer].index = NewIndex

\* C26: when clear returns, the three stores and the graph are empty; they
\* stay empty, also for a fresh Vectoria on the same database, as long as
\* no insertion is called; meanwhile getAllDocuments returns no document
\* and search, HNSW or brute force, returns [] unless the embedder fails.
C26_ClearEmptiesAll ==
  [][/\ \A p \in DOMAIN frames :
          (frames[p].kind = "clear" /\ Settles(p)) =>
             (last'.reply = Result("void") /\ AllEmpty')
     /\ (/\ AllEmpty
         /\ \A p \in DOMAIN frames : frames[p].kind \notin AddKinds
         /\ \A p \in DOMAIN frames' : frames'[p].kind \notin AddKinds
         /\ last'.kind \notin AddKinds)
        => /\ AllEmpty'
           /\ last'.kind = "getAllDocuments" => last'.reply = Result(<<>>)
           /\ last'.kind = "search" =>
                last'.reply \in {Result(<<>>), Error("Embedding failed")}]_vars

C26_Witness ==
  /\ last.kind = "search" /\ last.reply = Result(<<>>)
  /\ AllEmpty /\ nextId > 1 /\ Len(inst) > 1

(***************************************************************************)
(* Properties of search                                                    *)
(***************************************************************************)
\* C27: on every graph built by insertions, HNSWIndex.search(q, k) does not
\* throw and returns at most k entries, scores non-increasing, no id twice;
\* so does the brute-force path of search over the documents of the same
\* points.
C27_SearchResultShape ==
  LET Shaped(res, k) ==
        /\ Len(res) <= k
        /\ \A i, j \in 1..Len(res) :
             i < j => (res[i].score >= res[j].score /\ res[i].id # res[j].id)
      ids == SortedIds(DOMAIN Graph.nodes)
      all == [i \in 1..Len(ids) |->
                [id |-> ids[i], text |-> "a", metadata |-> "none",
                 embedding |-> FromFloat32(Graph.nodes[ids[i]].vector),
                 createdAt |-> 0]]
  IN \A k \in {1, 2, TopK} :
       /\ \A q \in Vectors :
            /\ ~HnswSearch(Graph, ToFloat32(q), k).err
            /\ Shaped(HnswSearch(Graph, ToFloat32(q), k).res, k)
       /\ \A t \in Texts :
            Shaped(AfterBfGetAll(World,
                     [NewFrame("lib", "search", "search", 1) EXCEPT
                        !.texts = <<t>>, !.k = k, !.brute = TRUE], all).f.results, k)

C27_Witness ==
  /\ Cardinality(DOMAIN Graph.nodes) = MaxNodes
  /\ Graph.maxLevel = 1
  /\ \E q \in Vectors :
       /\ Len(HnswSearch(Graph, ToFloat32(q), 2).res) = 2
       /\ HnswSearch(Graph, ToFloat32(q), 2).res[1].score
            > HnswSearch(Graph, ToFloat32(q), 2).res[2].score
       /\ Len(HnswSearch(Graph, ToFloat32(q), TopK).res) > 2

\* C28: on every graph built by insertions, a search with k equal to the
\* number n of points, run with efSearch no less than n, returns all n
\* points; and on a graph of one point every k >= 1 returns that point.
C28_WholeCorpus ==
  LET n == Cardinality(DOMAIN Graph.nodes)
      g == [Graph EXCEPT !.efSearch = IF n > EfSearch THEN n ELSE EfSearch]
  IN n >= 1 =>
       \A q \in Vectors :
          /\ {HnswSearch(g, ToFloat32(q), n).res[i].id :
                i \in 1..Len(HnswSearch(g, ToFloat32(q), n).res)} = DOMAIN Graph.nodes
          /\ n = 1 => \A k \in {1, 2, TopK} :
                         /\ Len(HnswSearch(g, ToFloat32(q), k).res) = 1
                         /\ HnswSearch(g, ToFloat32(q), k).res[1].id \in DOMAIN Graph.nodes

(***************************************************************************)
(* Properties of init and of the dispatch                                  *)
(***************************************************************************)
\* C29: once a Vectoria has been initialised, a call that is still inside
\* init() does not replace its graph when the stores answer: the step
\* leaves the graph as it is (a call of indexDocuments may go on to add its
\* points) and no point of the graph is lost.
C29_InitLoadsOnce ==
  [][\A p \in DOMAIN frames :
       (/\ frames[p].pc = "init_nodes"
        /\ inst[frames[p].inst].initialized
        /\ (Continues(p) \/ Settles(p)))
       => /\ DOMAIN inst[frames[p].inst].index.nodes
               \subseteq DOMAIN inst'[frames[p].inst].index.nodes
          /\ frames[p].op # "indexDocuments" =>
               inst'[frames[p].inst].index = inst[frames[p].inst].index]_vars

\* C30: every request gets one reply, {result} or {error}: a request is
\* answered in the step that receives it or becomes one suspended handler;
\* a suspended handler stays until the step in which it replies; when the
\* awaited calls return, no handler stays suspended for ever. A request of
\* unknown type is answered with an error and changes neither the indexer,
\* the migration manager nor the stores.
C30_OneReplyPerRequest ==
  /\ [][/\ calls' = calls + 1 =>
             (last'.reply.type \in {"result", "error"})
               # (/\ Len(frames') = Len(frames) + 1
                  /\ frames'[Len(frames')].origin = "sw")
        /\ \A p \in DOMAIN frames :
             frames[p].origin = "sw" =>
               /\ Len(frames') >= Len(frames) =>
                    /\ frames'[p].origin = "sw" /\ frames'[p].kind = frames[p].kind
                    /\ frames'[p] # frames[p] => last'.reply.type = "none"
               /\ Len(frames') < Len(frames) =>
                    \E q \in DOMAIN frames :
                       /\ frames' = Without(q)
                       /\ last'.kind = frames[q].kind
                       /\ last'.reply.type \in {"result", "error"}
        /\ last'.kind = "UNKNOWN" =>
             /\ last'.reply = Error("Unknown message type")
             /\ UNCHANGED <<inst, indexer, mgrs, migrationManager, docs, nodesStore, meta>>]_vars
  /\ <>[](\A p \in DOMAIN frames : frames[p].origin # "sw")

C30_Witness ==
  /\ last.kind = "UNKNOWN" /\ last.reply.type = "error"
  /\ migrationManager # 0 /\ DOMAIN docs # {}
  /\ \E p \in DOMAIN frames : frames[p].origin = "sw"

(***************************************************************************)
(* Properties of the order of insertions                                   *)
(***************************************************************************)
\* An ADD_DOC or BATCH_ADD handler in flight.
AddRequest(f) == f.origin = "sw" /\ f.op \in {"addDocument", "addDocuments"}

\* C31: add requests are served in arrival order: a handler inserts its
\* points into the graph only when every add request that arrived before it
\* has inserted its own, and its documents are written to the Documents
\* store only when those of every earlier add request are.
C31_AddsInArrivalOrder ==
  [][\A p \in DOMAIN frames : AddRequest(frames[p]) /\ Continues(p) =>
       /\ (Embedding(frames[p]) /\ frames'[p].pc = "db_add") =>
             \A q \in 1..(p - 1) : ~(AddRequest(frames[q]) /\ Embedding(frames[q]))
       /\ (frames[p].pc = "db_add" /\ frames'[p].pc = "save_meta") =>
             \A q \in 1..(p - 1) :
                ~(AddRequest(frames[q])
                  /\ (Embedding(frames[q]) \/ frames[q].pc = "db_add"))]_vars

(***************************************************************************)
(* Properties of the graph's serialisation and of addPoint's effects       *)
(***************************************************************************)
\* C32: for every graph reachable by insertions, toJSON(fromJSON(toJSON(g)))
\* equals toJSON(g): M, efConstruction, efSearch, maxLevel, entryPointId and
\* the id, vector, level and neighbour lists of every node survive the round
\* trip.
C32_JsonRoundTrip ==
  /\ ToJSON(Reload(ToJSON(Graph))) = ToJSON(Graph)
  /\ NodeIds(Reload(ToJSON(Graph))) = NodeIds(Graph)

\* C32 witness: a graph of three or more nodes on two layers, with an entry
\* point that is not the first node and with links, is reloaded as it was.
C32_Witness ==
  /\ Cardinality(NodeIds(Graph)) >= 3 /\ Graph.maxLevel = 1
  /\ Graph.entryPointId \notin {NoId, 1}
  /\ \E n \in NodeIds(Graph) : Len(Graph.nodes[n].neighbors[1]) = Graph.M
  /\ ToJSON(Reload(ToJSON(Graph))) = ToJSON(Graph)

\* The Nodes store that holds every node of g as saveIndex writes it.
StoredNodes(g) == [id \in NodeIds(g) |-> SerializeNode(g.nodes[id])]

\* saveIndex(touched) on graph g: the touched nodes that g holds, put into
\* the store.
SaveTouched(store, g, touched) ==
  LET ids == SortedIds(touched \cap NodeIds(g))
  IN PutAll(store, [i \in 1..Len(ids) |-> SerializeNode(g.nodes[ids[i]])])

\* C33: the set addPoint returns holds the new id and every older node whose
\* neighbour lists the call changed: a node outside the set is as it was
\* before the call, so a Nodes store that equalled the graph before the call
\* equals it again once the returned nodes are written.
C33_TouchedCoversChanges ==
  [][out'.err = "" =>
       /\ out'.id \in out'.touched
       /\ out'.touched \subseteq NodeIds(Graph')
       /\ \A n \in NodeIds(Graph) \ out'.touched : Graph'.nodes[n] = Graph.nodes[n]
       /\ SaveTouched(StoredNodes(Graph), Graph', out'.touched) = StoredNodes(Graph')]_vars

\* C33 witness: the last addPoint changed the list of an older node, whose
\* id it returned, and left another node out of the returned set.
C33_Witness ==
  /\ out.err = "" /\ out.id \in out.touched
  /\ \E n \in out.touched \ {out.id} : out.id \in SeqToSet(Graph.nodes[n].neighbors[1])
  /\ NodeIds(Graph) \ out.touched # {}

\* The ids on layer L of node n of graph g.
Links(g, n, L) == SeqToSet(g.nodes[n].neighbors[L + 1])

\* C34: when addPoint returns, every node n that the new node lists on a
\* layer L lists the new node on L, unless n's list on L was full before the
\* call, so that the call pruned it back to M entries.
C34_LinksAreMutual ==
  [][out'.err = "" =>
       \A L \in 0..Graph'.nodes[out'.id].level :
          \A n \in Links(Graph', out'.id, L) :
             /\ HasLayer(Graph', n, L)
             /\ \/ out'.id \in Links(Graph', n, L)
                \/ /\ Len(Graph.nodes[n].neighbors[L + 1]) = Graph.M
                   /\ Len(Graph'.nodes[n].neighbors[L + 1]) = Graph.M]_vars

\* C34 witness: the new node lists two nodes on layer 0; one lists it back,
\* the other had a full list and the pruning dropped the new node from it.
C34_Witness ==
  /\ out.err = "" /\ out.id \in NodeIds(Graph)
  /\ \E n \in Links(Graph, out.id, 0) : out.id \in Links(Graph, n, 0)
  /\ \E n \in Links(Graph, out.id, 0) :
        out.id \notin Links(Graph, n, 0) /\ Len(Graph.nodes[n].neighbors[1]) = Graph.M

(***************************************************************************)
(* Properties of the stores under a migration                              *)
(***************************************************************************)
\* C35: once the operations in progress have completed, a node of the Nodes
\* store and the document of the same id carry the same vector, also while
\* a migration run is suspended between two batches and after a run has
\* stopped or completed.
C35_NodeVectorIsEmbedding ==
  (\A p \in DOMAIN frames : frames[p].origin = "run" /\ frames[p].pc = "mig_yield") =>
     \A id \in DOMAIN docs \cap DOMAIN nodesStore :
        nodesStore[id].vector = docs[id].embedding

\* The ids of the first n documents of the snapshot of run f.
FirstOf(f, n) == {f.allDocs[k].id : k \in 1..Min(n, Len(f.allDocs))}

\* C36: whenever a run is suspended at the yield that follows a batch, the
\* documents that carry the target embedder's embedding, the ids of the
\* Nodes store and the nodes of the indexer's graph are exactly the first
\* `processed` documents of the snapshot.
C36_BatchBoundary ==
  \A p \in DOMAIN frames :
     (frames[p].origin = "run" /\ frames[p].pc = "mig_yield") =>
        LET mg   == mgrs[frames[p].mgr]
            done == FirstOf(frames[p], mg.status.processed)
        IN /\ mg.status.processed <= Len(frames[p].allDocs)
           /\ {id \in DOMAIN docs :
                 docs[id].embedding = Embed(mg.target, docs[id].text)} = done
           /\ DOMAIN nodesStore = done
           /\ NodeIds(inst[mg.indexer].index) = done

(***************************************************************************)
(* Properties of the shape of the graph                                    *)
(***************************************************************************)
\* C37: after any sequence of addPoint calls every node has exactly level+1
\* neighbour lists, and every id on a list of layer L names a node of the
\* graph other than the owner, of level L or more, and occurs once on it.
C37_ListsWellFormed ==
  \A n \in NodeIds(Graph) :
     /\ Len(Graph.nodes[n].neighbors) = Graph.nodes[n].level + 1
     /\ \A L \in 0..Graph.nodes[n].level :
           \A i \in 1..Len(Graph.nodes[n].neighbors[L + 1]) :
              LET m == Graph.nodes[n].neighbors[L + 1][i] IN
              /\ m \in NodeIds(Graph) /\ m # n
              /\ Graph.nodes[m].level >= L
              /\ \A j \in 1..Len(Graph.nodes[n].neighbors[L + 1]) :
                    Graph.nodes[n].neighbors[L + 1][j] = m => j = i

\* C37 witness: four nodes, two of them linked on layer 1, a node of level 0
\* with a full list, and a node of level 0 that a pruned list dropped.
C37_Witness ==
  /\ Cardinality(NodeIds(Graph)) = MaxNodes
  /\ \E a, b \in NodeIds(Graph) :
        a # b /\ Graph.nodes[a].level = 1 /\ b \in Links(Graph, a, 1)
  /\ \E c \in NodeIds(Graph) :
        Graph.nodes[c].level = 0 /\ Len(Graph.nodes[c].neighbors[1]) = Graph.M
  /\ \E c, d \in NodeIds(Graph) :
        c \in Links(Graph, d, 0) /\ d \notin Links(Graph, c, 0)

(***************************************************************************)
(* Properties of termination                                               *)
(***************************************************************************)
\* The sequence s holds no element twice.
NoRepeat(s) == \A i, j \in 1..Len(s) : s[i] = s[j] => i = j

\* The record t of a search of g names nodes of g, none twice, and the
\* search it records returned what searchLayer returns (s).
Traced(g, t, s) ==
  /\ ~t.err /\ ~s.err /\ t.W = s.W
  /\ NoRepeat(t.admitted)
  /\ SeqToSet(t.admitted) \subseteq NodeIds(g)

\* C38: addPoint and search return on every graph reachable by insertions:
\* from every node of a layer, one scan of the greedy descent either stays
\* or moves to a neighbour that is strictly closer to the query, and
\* searchLayer pushes no id onto C twice, so the descent makes fewer moves
\* than there are nodes and the while-loop at most one iteration per node.
\* (The loops of addPoint run on the graph as it was before the call: the
\* new node is on no list of a layer while that layer is searched.)
C38_LoopsTerminate ==
  /\ out.err \in {"", "exists"}
  /\ \A g \in {Graph} : \A q \in Vectors :
        /\ ~HnswSearch(g, q, TopK).err
        /\ \A l \in 0..g.maxLevel : \A n \in {x \in NodeIds(g) : HasLayer(g, x, l)} :
              /\ LET b == BestNeighbor(g, q, g.nodes[n].neighbors[l + 1], NoId,
                                       Dist(q, g.nodes[n].vector))
                 IN /\ ~b.err
                    /\ b.id # NoId =>
                         /\ b.dist > Dist(q, g.nodes[n].vector)
                         /\ b.dist = Dist(q, g.nodes[b.id].vector)
              /\ \A ef \in {g.efConstruction} \cup (IF l = 0 THEN {g.efSearch} ELSE {}) :
                    Traced(g, SearchLayerAdmitted(g, q, n, ef, l),
                           SearchLayer(g, q, n, ef, l))

\* C38 witness: a graph with a cycle of three nodes on layer 0 and two linked
\* nodes on layer 1, on which a search visits every node once and the
\* descent moves to a closer neighbour.
C38_Witness ==
  /\ Cardinality(NodeIds(Graph)) = MaxNodes
  /\ \E a, b, c \in NodeIds(Graph) :
        /\ a # b /\ b # c /\ c # a
        /\ b \in Links(Graph, a, 0) /\ c \in Links(Graph, b, 0) /\ a \in Links(Graph, c, 0)
  /\ \E q \in Vectors, n \in NodeIds(Graph) :
        /\ HasLayer(Graph, n, 1)
        /\ BestNeighbor(Graph, q, Graph.nodes[n].neighbors[2], NoId,
                        Dist(q, Graph.nodes[n].vector)).id # NoId
        /\ Len(SearchLayerAdmitted(Graph, q, n, Graph.efSearch, 0).admitted) = MaxNodes

(***************************************************************************)
(* Properties of the status of a manager over several runs                 *)
(***************************************************************************)
\* C39: in every state of a MigrationManager, whatever starts, stops and
\* restarts it has seen, 0 <= processed <= total, and isComplete implies
\* that processed = total and that no run is in progress.
C39_StatusConsistent ==
  \A m \in DOMAIN mgrs :
     /\ 0 <= mgrs[m].status.processed
     /\ mgrs[m].status.processed <= mgrs[m].status.total
     /\ mgrs[m].status.isComplete =>
           /\ mgrs[m].status.processed = mgrs[m].status.total
           /\ ~mgrs[m].isRunning

\* C40: status.error is present only when the last run of the manager that
\* ended failed, and not while a later run is in progress; getStatus never
\* reports isComplete together with an error.
C40_ErrorOnlyAfterFailure ==
  \A m \in DOMAIN mgrs :
     /\ mgrs[m].status.error # "" => (mgrs[m].ended = "failed" /\ ~mgrs[m].isRunning)
     /\ ~(mgrs[m].status.isComplete /\ mgrs[m].status.error # "")
=============================================================================
